---- MODULE Spec2Model ----
(***************************************************************************)
(* State-machine model of the hyperliquid-exporter monitoring scripts.     *)
(*                                                                         *)
(* The repository is a set of independent scripts.  One behaviour of this  *)
(* module is one run of one script; the variable prog records which one.   *)
(* Time is the wall clock in whole seconds (variable now).                 *)
(***************************************************************************)
EXTENDS Integers, Sequences, FiniteSets, TLC

VARIABLES
    prog,                   \* the script this behaviour runs
    now,                    \* wall clock, seconds
    \* ---- hyper_liquid_validator_data.py : APIRateLimiter
    calls,                  \* self.calls (deque of timestamps, oldest first)
    max_calls,              \* self.max_calls
    admitted,               \* history: the times at which wait_if_needed returned
    issued,                 \* history: number of wait_if_needed calls made
    rl_threads,             \* the callers inside wait_if_needed: position and locals
    \* ---- hyper_liquid_validator_data.py : HyperLiquidAPI
    api_backoff_time,       \* self.backoff_time
    api_attempt,            \* attempt of the running fetch_validator_data
    api_pc,                 \* "idle", or "loop" while fetch_validator_data runs
    api_result,             \* what the last fetch_validator_data returned
    api_hist,               \* history of the client's attempts
    \* ---- alert_hyperliqyud_validator_jail_status.py
    js_threads,             \* the process_server threads, one per CONFIG entry
    \* ---- hyperliquid_validator_safeguard.py : AlertManager
    am_bot,                 \* self.telegram_bot is set
    am_twilio,              \* self.twilio_client is set
    am_phones,              \* len(self.config['phone_numbers'])
    am_pc,                  \* position in send_alert: "idle", "telegram", "calls", "returned"
    am_args,                \* arguments of the running send_alert
    am_i,                   \* index of the phone number make_calls is at
    am_log,                 \* history: the delivery attempts of the running send_alert
    am_raised,              \* history: an exception has left send_alert
    am_count,               \* history: send_alert invocations so far
    \* ---- the start of telegram_alert.py and of hyperliquid_validator_safeguard.py
    st_present,             \* the settings that have a value in the environment
    st_test,                \* a --test option was given
    st_pc,                  \* position in main(): "start", "components", "loop", "exited"
    st_exit,                \* exit status of the process (NoTime while it runs)
    \* ---- hl_exporter.py : update_validator_mapping
    validator_mapping,      \* the global validator_mapping (short id -> entry)
    new_mapping,            \* new_mapping of the running refresh
    validator_summaries,    \* the roster the running (or last) refresh fetched
    um_i,                   \* index of the summary the for loop is at
    um_pc,                  \* position of the updater: "fetch" or "build"
    hl_validator_count_gauge, \* value of the gauge hl_validator_count
    um_hist,                \* history of the refreshes
    \* ---- mainnet_hyper_delgated_balance_track.py, monitor
    last_heartbeat_time,    \* time of the last heartbeat, NoTime for datetime.min
    bt_running,             \* FALSE once an exception has left monitor()
    bt_hist,                \* history of the ticks of monitor()
    \* ---- hyperliquid_validator_safeguard.py, calls of fetch_validator_data
    fc_hist,                \* history of the calls of fetch_validator_data
    \* ---- hl_exporter.py, parse_consensus_log_line
    rd_hist,                \* history of the lookups in validator_mapping
    \* ---- hl_exporter.py, proposal_count_monitor / block_time_monitor
    lm_kind,                \* which of the two monitors runs
    lm_dir,                 \* the files of its log directory (numbered by mtime)
    lm_latest_file,         \* latest_file of the monitor, NoFile for None
    lm_first_run,           \* first_run
    lm_pc,                  \* where the monitor thread is
    lm_from_start,          \* from_start of the running stream_log_file
    lm_unread,              \* lines of the streamed file not read yet
    lm_beat,                \* flips at every sleep of the thread
    lm_hist,                \* history of the monitor
    \* ---- hyper_liquid_validator_data.py, retry_on_exception
    rt_retries,             \* retries of the decorator
    rt_delay,               \* delay of the decorator
    rt_attempt,             \* attempt of the running wrapper call
    rt_pc,                  \* "idle", "loop" or "done"
    rt_result,              \* how the wrapper call ended
    rt_hist,                \* history of the wrapper call
    \* ---- the polling loop of the running monitor script
    loop_running,           \* FALSE once the script's while-True loop has been left
    hist,                   \* history of the run (observations, unjails, alerts)
    \* ---- telegram_alert.py : ValidatorMonitor
    tg_last_jailed_time,    \* self.last_jailed_time
    tg_last_unjail_attempt, \* self.last_unjail_attempt
    tg_retry_count,         \* self.retry_count
    \* ---- node_auto_unjailed_alert_script.py : ValidatorMonitor
    node_last_jailed_time,  \* self.last_jailed_time
    \* ---- twillio_alert.py : HyperliquidMonitor
    tw_last_jailed_status,  \* self.last_jailed_status
    tw_phone_numbers,       \* len(self.phone_numbers)
    \* ---- hyperliquid_validator_safeguard.py
    sg_mode,                \* mode of monitor_loop: "specific", "all" or "both"
    sg_unjail_wait_arg,     \* args.unjail_wait (NoTime: --unjail-wait not given)
    sg_in_unjail_wait,      \* ValidatorMonitor.in_unjail_wait
    sg_unjail_start_time,   \* ValidatorMonitor.unjail_start_time
    sg_last_fetched_data,   \* _last_fetched_data ("none": None)
    sg_last_fetch_time,     \* _last_fetch_time
    sg_loop_wake,           \* when the asyncio.sleep of monitor_loop ends
    sg_tasks                \* the schedule_unjail tasks created and not yet returned

rlVars == <<calls, max_calls, admitted, issued, rl_threads>>
tgVars == <<tg_last_jailed_time, tg_last_unjail_attempt, tg_retry_count>>
nodeVars == <<node_last_jailed_time>>
twVars == <<tw_last_jailed_status, tw_phone_numbers>>
sgVars == <<sg_mode, sg_unjail_wait_arg, sg_in_unjail_wait, sg_unjail_start_time, sg_last_fetched_data,
            sg_last_fetch_time, sg_loop_wake, sg_tasks>>
apiVars == <<api_backoff_time, api_attempt, api_pc, api_result, api_hist>>
jsVars == <<js_threads>>
amVars == <<am_bot, am_twilio, am_phones, am_pc, am_args, am_i, am_log, am_raised, am_count>>
stVars == <<st_present, st_test, st_pc, st_exit>>
umVars == <<validator_mapping, new_mapping, validator_summaries, um_i, um_pc,
           hl_validator_count_gauge, um_hist>>
btVars == <<last_heartbeat_time, bt_running, bt_hist>>
fcVars == <<fc_hist>>
rdVars == <<rd_hist>>
lmVars == <<lm_kind, lm_dir, lm_latest_file, lm_first_run, lm_pc, lm_from_start, lm_unread, lm_beat, lm_hist>>
rtVars == <<rt_retries, rt_delay, rt_attempt, rt_pc, rt_result, rt_hist>>
monVars == <<loop_running, hist, tgVars, nodeVars, twVars, sgVars>>
vars == <<prog, now, rlVars, apiVars, jsVars, amVars, stVars, umVars, btVars, fcVars, rdVars, lmVars, rtVars, monVars>>

\* "no value" for an Optional timestamp (Python None)
NoTime == -1

\* What one status fetch returns about the tracked validator:
\*   "J" / "N"  the roster holds the validator with isJailed true / false
\*   "absent"   the roster was fetched and does not hold the validator
\*   "fail"     the request failed (transport error or bad HTTP status)
Observations == {"J", "N", "absent", "fail"}

\* Time a network request or the hl-node command may take, in seconds: at
\* once, or a slow one.
NetDelays == {0, 60}

\* Outcomes of the hl-node unjail command: accepted ("ok": status ok, return
\* code 0), rejected, or the subprocess call raising.
CmdOutcomes == {"ok", "rejected", "raise"}

(***************************************************************************)
(* History of a monitor run.  It is written by the actions and read only   *)
(* by the properties and by the bounds on the environment.  An             *)
(* uninterrupted jailed period starts with the first jailed observation of *)
(* the poll loop and ends with its next not-jailed observation; failed     *)
(* fetches and rosters without the validator do not end it.                *)
(***************************************************************************)
HistInit ==
    [ healthySeen      |-> 0,       \* not-jailed observations so far
      faultsSeen       |-> 0,       \* failed fetches and absences so far
      periodStart      |-> NoTime,  \* first jailed observation of the period
      faultInPeriod    |-> FALSE,   \* a fault was observed during the period
      jailedAfterFault |-> FALSE,   \* and a jailed observation after it
      periodUnjails    |-> 0,       \* unjail commands executed in the period
      periodAlerts     |-> 0,       \* jail alerts / alert rounds in the period
      firstUnjailDelay |-> NoTime,  \* first unjail of the period - periodStart
      lastUnjailEnd    |-> NoTime,  \* end of the last unjail of the period
      lastGap          |-> NoTime,  \* start of last unjail - end of the one before
      tickUnjailed     |-> FALSE,   \* the last tick executed the unjail command
      closedEarly      |-> FALSE,   \* the last tick ended a period before the wait
      closedUnjails    |-> 0,       \* unjail commands executed in that period
      prevUnjails      |-> NoTime,  \* unjail commands executed in the last period that
                                    \* a not-jailed observation has ended
      lastSnap         |-> "none",  \* isJailed of the last snapshot holding the validator
      tickObs          |-> "none",  \* what the last tick observed
      tickRefetched    |-> FALSE,   \* the last tick went to the network although a fetch
                                    \* had succeeded less than CACHE_EXPIRY before
      tickRepeat       |-> FALSE,   \* the last tick's snapshot repeated lastSnap
      tickTargeted     |-> 0,       \* targeted alerts the last tick emitted
      tickBroadcast    |-> 0,       \* sends to the all-validators chat by the last tick
      tickRecheck      |-> "none",  \* result of the status re-check the last tick's
                                    \* unjail attempt made, "none" without a re-check
      staleUnjails     |-> 0 ]      \* unjail commands run by a task after a recovery

\* the poll loop observed obs at time t; wait is the script's UNJAIL_WAIT_TIME
HistObserve(h, obs, t, wait) ==
    LET h1 == [h EXCEPT !.tickUnjailed = FALSE, !.closedEarly = FALSE, !.closedUnjails = 0,
                        !.tickRepeat = (obs \in {"J", "N"} /\ obs = h.lastSnap),
                        !.tickTargeted = 0,
                        !.tickBroadcast = 0,
                        !.tickRecheck = "none",
                        !.tickObs = obs,
                        !.lastSnap = IF obs \in {"J", "N"} THEN obs ELSE h.lastSnap]
    IN  CASE obs = "J" /\ h.periodStart = NoTime ->
               [h1 EXCEPT !.periodStart = t, !.periodUnjails = 0, !.periodAlerts = 0,
                          !.firstUnjailDelay = NoTime, !.lastUnjailEnd = NoTime,
                          !.lastGap = NoTime]
          [] obs = "J" /\ h.periodStart # NoTime ->
               [h1 EXCEPT !.jailedAfterFault = h.faultInPeriod]
          [] obs = "N" ->
               [h1 EXCEPT !.healthySeen = h.healthySeen + 1,
                          !.periodStart = NoTime,
                          !.faultInPeriod = FALSE, !.jailedAfterFault = FALSE,
                          !.closedEarly = (h.periodStart # NoTime /\ t - h.periodStart < wait),
                          !.closedUnjails = IF h.periodStart # NoTime THEN h.periodUnjails ELSE 0,
                          !.prevUnjails = IF h.periodStart # NoTime THEN h.periodUnjails
                                          ELSE h.prevUnjails]
          [] OTHER ->
               [h1 EXCEPT !.faultsSeen = h.faultsSeen + 1,
                          !.faultInPeriod = (h.periodStart # NoTime)]

\* The observations the environment may still produce: the number of
\* not-jailed observations and of faults in one run is bounded.
MaxHealthy == 1
MaxFaults == 1
MayObserve(h, obs) ==
    CASE obs = "J" -> TRUE
      [] obs = "N" -> h.healthySeen < MaxHealthy
      [] OTHER -> h.faultsSeen < MaxFaults

\* the unjail command ran from time s to time e
HistUnjail(h, s, e) ==
    [h EXCEPT !.periodUnjails = h.periodUnjails + 1,
              !.firstUnjailDelay = IF h.periodUnjails = 0 /\ h.periodStart # NoTime
                                   THEN s - h.periodStart ELSE h.firstUnjailDelay,
              !.lastGap = IF h.lastUnjailEnd # NoTime THEN s - h.lastUnjailEnd ELSE NoTime,
              !.lastUnjailEnd = e,
              !.tickUnjailed = TRUE]

\* a jail alert (or an alert-call round) was started
HistAlert(h) == [h EXCEPT !.periodAlerts = h.periodAlerts + 1]

(***************************************************************************)
(* telegram_alert.py : ValidatorMonitor                                    *)
(***************************************************************************)
TG_CHECK_INTERVAL == 60
TG_UNJAIL_WAIT_TIME == 1800
TG_RETRY_WAIT_TIME == 600
TG_MAX_RETRIES == 5
\* time.sleep(10) of unjail_validator, "Wait for network to process"
TG_SETTLE_WAIT == 10

\* bound of the clock in a telegram_alert.py run
MaxTimeTg == 6200

\* ValidatorMonitor.__init__
TgNew ==
    /\ tg_last_jailed_time = NoTime
    /\ tg_last_unjail_attempt = NoTime
    /\ tg_retry_count = 0

\* a faulty wait test that lets the first attempt start at once
TgWaitElapsedAtOnce(time_since_jail) == time_since_jail >= 0

\* if time_since_jail >= UNJAIL_WAIT_TIME
TgWaitElapsed(time_since_jail) == time_since_jail >= TG_UNJAIL_WAIT_TIME

\* a faulty budget test that allows one attempt too many
TgExhaustedOneLate(retry_count) == retry_count > TG_MAX_RETRIES

\* if self.retry_count >= MAX_RETRIES
TgExhausted(retry_count) == retry_count >= TG_MAX_RETRIES

\* a faulty retry test that ignores the time of the last attempt
TgShouldRetryAlways(current_time, last_unjail_attempt) == TRUE

\* should_retry of monitor_loop
TgShouldRetry(current_time, last_unjail_attempt) ==
    IF last_unjail_attempt # NoTime
    THEN (current_time - last_unjail_attempt) >= TG_RETRY_WAIT_TIME
    ELSE TRUE

\* the fields of the ValidatorMonitor
TgSelf ==
    [ last_jailed_time    |-> tg_last_jailed_time,
      last_unjail_attempt |-> tg_last_unjail_attempt,
      retry_count         |-> tg_retry_count ]

\* a faulty not-jailed branch for which an exhausted budget is final
TgNotJailedUnlessExhausted(self) ==
    IF self.retry_count >= TG_MAX_RETRIES THEN self
    ELSE [self EXCEPT !.last_jailed_time = NoTime, !.retry_count = 0]

\* a faulty not-jailed branch that forgets the jail time and keeps the count
TgNotJailedKeepsCount(self) == [self EXCEPT !.last_jailed_time = NoTime]

\* the not-jailed branch of monitor_loop:
\* self.last_jailed_time = None; self.retry_count = 0
TgNotJailed(self) == [self EXCEPT !.last_jailed_time = NoTime, !.retry_count = 0]

\* the jailed branch of monitor_loop decides to call unjail_validator
TgAttempts(current_time, ljt, lua, retry_count) ==
    /\ TgWaitElapsed(current_time - ljt)
    /\ ~TgExhausted(retry_count)
    /\ TgShouldRetry(current_time, lua)

\* a faulty success test that trusts the command's answer
TgUnjailSuccessOnAcceptance(cmd, recheck) == cmd = "ok"

\* success of unjail_validator: the command answered status ok and the
\* re-check returned the validator with isJailed false
TgUnjailSuccess(cmd, recheck) == cmd = "ok" /\ recheck = "N"

\* duration of unjail_validator: the command, and after status ok the
\* settle wait and the re-check request
TgUnjailDuration(cmd, dCmd, dCheck) ==
    IF cmd = "ok" THEN dCmd + TG_SETTLE_WAIT + dCheck ELSE dCmd

\* One iteration of ValidatorMonitor.monitor_loop, with the unjail_validator
\* call it may make and the final time.sleep(CHECK_INTERVAL).
\*   obs      result of check_validator_status
\*   cmd      outcome of the hl-node command: "ok" (status ok), "rejected", "raise"
\*   recheck  result of the re-check made by unjail_validator
TgTick(obs, cmd, recheck, dFetch, dCmd, dCheck) ==
    /\ prog = "telegram_alert"
    /\ loop_running
    /\ now < MaxTimeTg
    /\ MayObserve(hist, obs)
    /\ LET current_time == now + dFetch
           ljt == IF tg_last_jailed_time = NoTime THEN current_time ELSE tg_last_jailed_time
           rc == IF tg_last_jailed_time = NoTime THEN 0 ELSE tg_retry_count
           h1 == HistObserve(hist, obs, current_time, TG_UNJAIL_WAIT_TIME)
       IN  CASE obs = "J" /\ TgAttempts(current_time, ljt, tg_last_unjail_attempt, rc) ->
                  LET end == current_time + TgUnjailDuration(cmd, dCmd, dCheck)
                      success == TgUnjailSuccess(cmd, recheck)
                  IN  /\ tg_retry_count' = IF success THEN 0 ELSE rc + 1
                      /\ tg_last_jailed_time' = IF success THEN NoTime ELSE ljt
                      /\ tg_last_unjail_attempt' = end
                      /\ hist' = [HistUnjail(h1, current_time, end) EXCEPT
                                     !.tickRecheck = IF cmd = "ok" THEN recheck ELSE "none"]
                      \* if self.unjail_validator(): break
                      /\ loop_running' = ~success
                      /\ now' = IF success THEN end ELSE end + TG_CHECK_INTERVAL
             [] obs = "J" /\ ~TgAttempts(current_time, ljt, tg_last_unjail_attempt, rc) ->
                  /\ tg_last_jailed_time' = ljt
                  /\ tg_retry_count' = rc
                  /\ hist' = h1
                  /\ now' = current_time + TG_CHECK_INTERVAL
                  /\ UNCHANGED <<tg_last_unjail_attempt, loop_running>>
             [] obs = "N" ->
                  /\ tg_last_jailed_time' = TgNotJailed(TgSelf).last_jailed_time
                  /\ tg_retry_count' = TgNotJailed(TgSelf).retry_count
                  /\ tg_last_unjail_attempt' = TgNotJailed(TgSelf).last_unjail_attempt
                  /\ hist' = h1
                  /\ now' = current_time + TG_CHECK_INTERVAL
                  /\ UNCHANGED loop_running
             [] OTHER ->
                  /\ hist' = h1
                  /\ now' = current_time + TG_CHECK_INTERVAL
                  /\ UNCHANGED <<tgVars, loop_running>>
    /\ UNCHANGED <<prog, rtVars, lmVars, rdVars, fcVars, btVars, umVars, stVars, rlVars, apiVars, jsVars, amVars, nodeVars, twVars, sgVars>>

(***************************************************************************)
(* node_auto_unjailed_alert_script.py : ValidatorMonitor                   *)
(***************************************************************************)
NODE_CHECK_INTERVAL == 300
NODE_UNJAIL_WAIT_TIME == 1800

\* bound of the clock in a node_auto_unjailed_alert_script.py run
MaxTimeNode == 4500

\* ValidatorMonitor.__init__
NodeNew == node_last_jailed_time = NoTime

\* if time_since_jail >= UNJAIL_WAIT_TIME
NodeWaitElapsed(time_since_jail) == time_since_jail >= NODE_UNJAIL_WAIT_TIME

\* success of unjail_validator: result.returncode == 0
NodeUnjailSuccess(cmd) == cmd = "ok"

\* One iteration of ValidatorMonitor.monitor_loop, with the unjail_validator
\* call it may make and the final time.sleep(CHECK_INTERVAL).
\*   cmd  outcome of the hl-node command: "ok" (return code 0), "rejected", "raise"
NodeTick(obs, cmd, dFetch, dCmd) ==
    /\ prog = "node_auto_unjailed"
    /\ loop_running
    /\ now < MaxTimeNode
    /\ MayObserve(hist, obs)
    /\ LET current_time == now + dFetch
           ljt == IF node_last_jailed_time = NoTime THEN current_time
                  ELSE node_last_jailed_time
           h1 == HistObserve(hist, obs, current_time, NODE_UNJAIL_WAIT_TIME)
       IN  CASE obs = "J" /\ NodeWaitElapsed(current_time - ljt) ->
                  /\ node_last_jailed_time' = IF NodeUnjailSuccess(cmd) THEN NoTime ELSE ljt
                  /\ hist' = HistUnjail(h1, current_time, current_time + dCmd)
                  /\ now' = current_time + dCmd + NODE_CHECK_INTERVAL
             [] obs = "J" /\ ~NodeWaitElapsed(current_time - ljt) ->
                  /\ node_last_jailed_time' = ljt
                  /\ hist' = h1
                  /\ now' = current_time + NODE_CHECK_INTERVAL
             [] obs = "N" ->
                  /\ node_last_jailed_time' = NoTime
                  /\ hist' = h1
                  /\ now' = current_time + NODE_CHECK_INTERVAL
             [] OTHER ->
                  /\ hist' = h1
                  /\ now' = current_time + NODE_CHECK_INTERVAL
                  /\ UNCHANGED node_last_jailed_time
    /\ UNCHANGED <<prog, rtVars, lmVars, rdVars, fcVars, btVars, umVars, stVars, rlVars, apiVars, jsVars, amVars, loop_running, tgVars, twVars, sgVars>>

(***************************************************************************)
(* twillio_alert.py : HyperliquidMonitor                                   *)
(***************************************************************************)
\* monitor_loop(self, check_interval=60)
TW_CHECK_INTERVAL == 60
\* time.sleep(2) between two calls of alert_all_numbers
TW_CALL_PAUSE == 2

\* bounds of a twillio_alert.py run
MaxTimeTw == 600
MaxPhones == 2

\* HyperliquidMonitor.__init__
TwNew(phones) ==
    /\ tw_last_jailed_status = FALSE
    /\ tw_phone_numbers = phones

\* a faulty alert test that ignores the status remembered from the last poll
TwStartsAlertsUnlatched(isJailed, last_jailed_status) == isJailed

\* a faulty test that takes a failed fetch for a validator that is not jailed
TwNoInfoOnlyAbsent(obs) == obs = "absent"

\* a faulty test that takes an absent validator for one that is not jailed
TwNoInfoOnlyFail(obs) == obs = "fail"

\* if validator_info is None: get_validator_status returned None
TwNoInfo(obs) == obs \in {"fail", "absent"}

\* if validator_info['isJailed'] and not self.last_jailed_status
TwStartsAlerts(isJailed, last_jailed_status) == isJailed /\ ~last_jailed_status

\* One iteration of HyperliquidMonitor.monitor_loop, with the alert_all_numbers
\* round it may make and the time.sleep(check_interval) that ends it.
TwTick(obs, dFetch) ==
    /\ prog = "twillio_alert"
    /\ loop_running
    /\ now < MaxTimeTw
    /\ MayObserve(hist, obs)
    /\ LET t == now + dFetch
           h1 == HistObserve(hist, obs, t, 0)
       IN  CASE TwNoInfo(obs) ->
                  \* validator_info is None: sleep and continue
                  /\ hist' = h1
                  /\ now' = t + TW_CHECK_INTERVAL
                  /\ UNCHANGED tw_last_jailed_status
             [] ~TwNoInfo(obs) /\ TwStartsAlerts(obs = "J", tw_last_jailed_status) ->
                  /\ hist' = HistAlert(h1)
                  /\ tw_last_jailed_status' = TRUE
                  /\ now' = t + TW_CALL_PAUSE * tw_phone_numbers + TW_CHECK_INTERVAL
             [] ~TwNoInfo(obs) /\ obs = "J"
                  /\ ~TwStartsAlerts(obs = "J", tw_last_jailed_status) ->
                  /\ hist' = h1
                  /\ now' = t + TW_CHECK_INTERVAL
                  /\ UNCHANGED tw_last_jailed_status
             [] OTHER ->
                  /\ hist' = h1
                  /\ tw_last_jailed_status' = FALSE
                  /\ now' = t + TW_CHECK_INTERVAL
    /\ UNCHANGED <<prog, rtVars, lmVars, rdVars, fcVars, btVars, umVars, stVars, rlVars, apiVars, jsVars, amVars, loop_running, tgVars, nodeVars, tw_phone_numbers, sgVars>>

(***************************************************************************)
(* hyperliquid_validator_safeguard.py : the asyncio monitor                *)
(*                                                                         *)
(* monitor_loop and the schedule_unjail tasks are coroutines of one event  *)
(* loop.  A coroutine runs until it suspends: at asyncio.sleep and at the  *)
(* network sends of AlertManager.  requests.post and subprocess.run block  *)
(* the loop, so fetch_validator_data and the unjail command are atomic.    *)
(***************************************************************************)
CHECK_INTERVAL == 300
UNJAIL_WAIT_TIME == 1800
CACHE_EXPIRY == 60

\* bounds of a safeguard run
MaxTimeSg == 2400
MaxTasks == 2
\* the clock advances in steps of
TimeStep == CACHE_EXPIRY

\* What a roster fetch returns: as Observations, and "empty" for a roster
\* with no validator in it (an empty list).
Rosters == {"J", "N", "absent", "empty"}

\* values of --unjail-wait tried (type=int, seconds)
UnjailWaitOptions == {600, 3600}

\* ValidatorMonitor.__init__ and the module globals, for a process started
\* with the given mode and --unjail-wait (NoTime: without the option)
SgStart(mode, unjail_wait) ==
    /\ sg_mode = mode
    /\ sg_unjail_wait_arg = unjail_wait
    /\ sg_in_unjail_wait = FALSE
    /\ sg_unjail_start_time = NoTime
    /\ sg_last_fetched_data = "none"
    /\ sg_last_fetch_time = 0
    /\ sg_loop_wake = 0
    /\ sg_tasks = <<>>

\* the same for a process started without --unjail-wait
SgNew(mode) == SgStart(mode, NoTime)

\* if _last_fetched_data and (current_time - _last_fetch_time < CACHE_EXPIRY):
\* an empty roster is falsy
CacheFresh(data, fetch_time, current_time) ==
    /\ data \notin {"none", "empty"}
    /\ current_time - fetch_time < CACHE_EXPIRY

\* a faulty fetch that falls back on the expired snapshot when the request fails
FetchValidatorDataStaleOnFailure(data, fetch_time, current_time, net) ==
    IF /\ data \notin {"none", "empty"}
       /\ current_time - fetch_time < CACHE_EXPIRY
    THEN <<data, data, fetch_time>>
    ELSE IF net = "fail" THEN <<data, data, fetch_time>>
    ELSE <<net, net, current_time>>

\* fetch_validator_data: <<returned value, data', fetch_time'>> when the
\* network would answer net (a roster, or "fail")
FetchValidatorData(data, fetch_time, current_time, net) ==
    IF CacheFresh(data, fetch_time, current_time) THEN <<data, data, fetch_time>>
    ELSE IF net = "fail" THEN <<"none", data, fetch_time>>
    ELSE <<net, net, current_time>>

\* a fetch succeeded less than CACHE_EXPIRY before current_time, and a call
\* made now goes to the network all the same
Refetches(data, fetch_time, current_time) ==
    /\ data # "none"
    /\ current_time - fetch_time < CACHE_EXPIRY
    /\ ~CacheFresh(data, fetch_time, current_time)

\* the observation of the tracked validator a fetched value amounts to
ObservationOf(validators) ==
    CASE validators = "none" -> "fail"
      [] validators = "empty" -> "absent"
      [] OTHER -> validators

\* if validator_info and validator_info['isJailed'] and not monitor.in_unjail_wait
StartsUnjailTask(obs, in_unjail_wait) == obs = "J" /\ ~in_unjail_wait

\* a tick of monitor_loop marks the tasks a recovery makes stale: those still
\* waiting out UNJAIL_WAIT_TIME when the validator is seen not jailed
MarkStale(tasks, obs, t) ==
    [i \in 1..Len(tasks) |->
        IF obs = "N" /\ tasks[i].pc = "sleep" /\ t < tasks[i].wake
        THEN [tasks[i] EXCEPT !.stale = TRUE] ELSE tasks[i]]

\* a faulty loop that awaits schedule_unjail instead of creating a task
LoopSleepEndAwaitingTask(t, sends, starts) ==
    IF starts THEN t + UNJAIL_WAIT_TIME + CHECK_INTERVAL ELSE t + sends + CHECK_INTERVAL

\* When the asyncio.sleep(interval) that ends a tick returns.  t is the time
\* of the tick, sends the time its alerts took, starts tells whether it
\* started a schedule_unjail: asyncio.create_task returns at once, so the
\* task adds nothing.
LoopSleepEnd(t, sends, starts) == t + sends + CHECK_INTERVAL

\* One iteration of monitor_loop up to its asyncio.sleep(interval).
\*   net   what the network answers to this tick's request, if one is made
\*   net2  what it answers to the request of check_all_validators, if one is made
\*   d     time the tick's alert sends take
MonitorTick(net, net2, d) ==
    /\ prog = "safeguard"
    /\ loop_running
    /\ now >= sg_loop_wake
    /\ now < MaxTimeSg
    \* a task created by the previous tick takes its first step before the
    \* loop's sleep returns: the event loop runs callbacks in FIFO order
    /\ \A i \in 1..Len(sg_tasks) : sg_tasks[i].pc # "created"
    /\ LET f == FetchValidatorData(sg_last_fetched_data, sg_last_fetch_time, now, net)
           obs == ObservationOf(f[1])
           tracked == sg_mode \in {"specific", "both"}
           \* check_all_validators fetches again
           again == f[1] # "none" /\ sg_mode \in {"all", "both"}
           f2 == IF again THEN FetchValidatorData(f[2], f[3], now, net2) ELSE f
           h0 == IF tracked THEN HistObserve(hist, obs, now, UNJAIL_WAIT_TIME)
                 ELSE [hist EXCEPT !.tickObs = obs]
           \* "All validators status update", and the summary of
           \* check_all_validators unless its own fetch failed
           update == IF f[1] # "none" /\ tracked /\ ~StartsUnjailTask(obs, sg_in_unjail_wait)
                     THEN 1 ELSE 0
           summary == IF again /\ f2[1] # "none" THEN 1 ELSE 0
           h1 == [h0 EXCEPT !.tickRefetched =
                     \/ Refetches(sg_last_fetched_data, sg_last_fetch_time, now)
                     \/ again /\ Refetches(f[2], f[3], now),
                            !.tickBroadcast = update + summary]
           \* no alert is sent when the fetch failed
           sends == IF f[1] = "none" THEN 0 ELSE d
       IN  /\ MayObserve(hist, obs)
           /\ Len(sg_tasks) < MaxTasks \/ ~StartsUnjailTask(obs, sg_in_unjail_wait)
           /\ sg_last_fetched_data' = f2[2]
           /\ sg_last_fetch_time' = f2[3]
           /\ sg_loop_wake' = LoopSleepEnd(now, sends,
                                  f[1] # "none" /\ tracked
                                  /\ StartsUnjailTask(obs, sg_in_unjail_wait))
           /\ CASE obs = "fail" ->
                      /\ hist' = h1
                      /\ UNCHANGED sg_tasks
                 [] obs # "fail" /\ tracked /\ StartsUnjailTask(obs, sg_in_unjail_wait) ->
                      \* asyncio.create_task(monitor.schedule_unjail(...))
                      /\ sg_tasks' = Append(sg_tasks,
                             [pc |-> "created", wake |-> NoTime, stale |-> FALSE])
                      /\ hist' = h1
                 [] obs # "fail" /\ tracked /\ ~StartsUnjailTask(obs, sg_in_unjail_wait) ->
                      \* "Specific validator status update" to the specific chat
                      /\ sg_tasks' = MarkStale(sg_tasks, obs, now)
                      /\ hist' = [h1 EXCEPT !.tickTargeted = 1]
                 [] OTHER ->
                      /\ hist' = h1
                      /\ UNCHANGED sg_tasks
    /\ UNCHANGED <<prog, rtVars, lmVars, rdVars, fcVars, btVars, umVars, stVars, now, rlVars, apiVars, jsVars, amVars, loop_running, tgVars, nodeVars, twVars,
                   sg_mode, sg_unjail_wait_arg, sg_in_unjail_wait, sg_unjail_start_time>>

\* sg_tasks without its i-th task
RemoveAt(tasks, i) ==
    [j \in 1..(Len(tasks) - 1) |-> IF j < i THEN tasks[j] ELSE tasks[j + 1]]

\* First step of schedule_unjail: from its start to asyncio.sleep(UNJAIL_WAIT_TIME).
\*   raises  the record has no 'name': building the jail message raises, and
\*           the task ends through its except and finally clauses
\*   d       time the jail alert (Telegram send and calls) takes
TaskStart(i, raises, d) ==
    /\ prog = "safeguard"
    /\ i \in 1..Len(sg_tasks)
    /\ sg_tasks[i].pc = "created"
    /\ sg_in_unjail_wait' = TRUE
    /\ sg_unjail_start_time' = now
    /\ IF raises
       THEN /\ sg_tasks' = RemoveAt(sg_tasks, i)
            /\ UNCHANGED hist
       ELSE /\ sg_tasks' = [sg_tasks EXCEPT ![i].pc = "sleep",
                                            ![i].wake = now + d + UNJAIL_WAIT_TIME]
            /\ hist' = HistAlert(hist)
    /\ UNCHANGED <<prog, rtVars, lmVars, rdVars, fcVars, btVars, umVars, stVars, now, rlVars, apiVars, jsVars, amVars, loop_running, tgVars, nodeVars, twVars, sg_mode, sg_unjail_wait_arg,
                   sg_last_fetched_data, sg_last_fetch_time, sg_loop_wake>>

\* success of the safeguard's unjail_validator: the snapshot the task was
\* created with shows isJailed, and the command returns code 0
SgUnjailSuccess(cmd) == cmd = "ok"

\* Second step of schedule_unjail: after the sleep, unjail_validator and the
\* start of the success or failure alert.
\*   d  an upper bound of the time that alert takes
TaskUnjail(i, cmd, d) ==
    /\ prog = "safeguard"
    /\ i \in 1..Len(sg_tasks)
    /\ sg_tasks[i].pc = "sleep"
    /\ now >= sg_tasks[i].wake
    /\ sg_in_unjail_wait' = IF SgUnjailSuccess(cmd) THEN FALSE ELSE sg_in_unjail_wait
    /\ sg_tasks' = [sg_tasks EXCEPT ![i].pc = "report", ![i].wake = now + d]
    /\ hist' = [HistUnjail(hist, now, now) EXCEPT
                    !.staleUnjails = IF sg_tasks[i].stale THEN @ + 1 ELSE @]
    /\ UNCHANGED <<prog, rtVars, lmVars, rdVars, fcVars, btVars, umVars, stVars, now, rlVars, apiVars, jsVars, amVars, loop_running, tgVars, nodeVars, twVars, sg_mode, sg_unjail_wait_arg,
                   sg_unjail_start_time, sg_last_fetched_data, sg_last_fetch_time,
                   sg_loop_wake>>

\* Last step of schedule_unjail: the alert is sent, the finally clause runs and
\* the task returns.
TaskFinish(i) ==
    /\ prog = "safeguard"
    /\ i \in 1..Len(sg_tasks)
    /\ sg_tasks[i].pc = "report"
    /\ sg_tasks' = RemoveAt(sg_tasks, i)
    /\ IF ~sg_in_unjail_wait
       THEN /\ sg_in_unjail_wait' = FALSE
            /\ sg_unjail_start_time' = NoTime
       ELSE UNCHANGED <<sg_in_unjail_wait, sg_unjail_start_time>>
    /\ UNCHANGED <<prog, rtVars, lmVars, rdVars, fcVars, btVars, umVars, stVars, now, rlVars, apiVars, jsVars, amVars, loop_running, hist, tgVars, nodeVars, twVars,
                   sg_mode, sg_unjail_wait_arg, sg_last_fetched_data, sg_last_fetch_time, sg_loop_wake>>

\* Time passes.  A coroutine whose sleep has ended, or that was just created,
\* runs first; an alert being sent completes within the time it was given.
Advance ==
    /\ prog = "safeguard"
    /\ now < MaxTimeSg
    /\ now < sg_loop_wake
    /\ \A i \in 1..Len(sg_tasks) :
          /\ sg_tasks[i].pc # "created"
          /\ now < sg_tasks[i].wake
    /\ now' = now + TimeStep
    /\ UNCHANGED <<prog, rtVars, lmVars, rdVars, fcVars, btVars, umVars, stVars, rlVars, apiVars, jsVars, amVars, monVars>>

\* the state of the monitor objects in a run of a script that creates none
NoMonitor ==
    /\ loop_running = FALSE
    /\ hist = HistInit
    /\ TgNew
    /\ NodeNew
    /\ TwNew(1)
    /\ SgNew("both")

(***************************************************************************)
(* alert_hyperliqyud_validator_jail_status.py : the threads at their start *)
(***************************************************************************)
\* one process_server thread per entry of CONFIG
JsServers == {"testnet", "mainnet"}

\* A thread that has just been started: it fetches at once.  fetches,
\* lastFetch, lastGap and lastOutcome are history.
JsThreadNew ==
    [ alive       |-> TRUE,     \* process_server is still running
      wake        |-> 0,        \* when its next fetch happens
      fetches     |-> 0,        \* fetch_validator_data calls so far
      lastFetch   |-> NoTime,   \* time of the last fetch
      lastGap     |-> NoTime,   \* time between the last two fetches
      lastOutcome |-> "none" ]  \* what the last loop iteration met

JsNew == js_threads = [s \in JsServers |-> JsThreadNew]

(***************************************************************************)
(* hyperliquid_validator_safeguard.py : AlertManager at its construction   *)
(***************************************************************************)
\* arguments of send_alert while none is running
NoArgs == [caller |-> "none", alert_type |-> "none", specific |-> FALSE]

\* AlertManager.__init__: bot and twilio tell whether the Telegram token and
\* the three Twilio settings are configured; phones is the number of entries
\* of config['phone_numbers']
AmNew(bot, twilio, phones) ==
    /\ am_bot = bot
    /\ am_twilio = twilio
    /\ am_phones = phones
    /\ am_pc = "idle"
    /\ am_args = NoArgs
    /\ am_i = 1
    /\ am_log = <<>>
    /\ am_raised = FALSE
    /\ am_count = 0

(***************************************************************************)
(* The start of a monitor process                                          *)
(***************************************************************************)
\* a process at the first statement of main(), with the settings its
\* environment holds and its command line
StNew(present, test) ==
    /\ st_present = present
    /\ st_test = test
    /\ st_pc = "start"
    /\ st_exit = NoTime

(***************************************************************************)
(* hl_exporter.py : the validator mapping at the start of the exporter     *)
(***************************************************************************)
\* validator_mapping = {} and the updater thread at its first statement
UmNew ==
    /\ validator_mapping = <<>>
    /\ new_mapping = <<>>
    /\ validator_summaries = <<>>
    /\ um_i = 1
    /\ um_pc = "fetch"
    /\ hl_validator_count_gauge = 0
    /\ um_hist = [refreshes |-> 0,      \* refreshes ended so far
                  last |-> "none",      \* how the last one ended
                  installed |-> <<>>]   \* the roster validator_mapping was built from

\* mainnet_hyper_delgated_balance_track.py at the entry of monitor()
BtNew ==
    /\ last_heartbeat_time = NoTime
    /\ bt_running = TRUE
    /\ bt_hist = [ticks |-> 0, fetched |-> "none", due |-> FALSE,
                  posted |-> 0, raised |-> "none"]

\* no call of the safeguard's fetch_validator_data has been made
FcNew ==
    fc_hist = [calls |-> 0,            \* calls so far
               at |-> NoTime,          \* time of the last call
               returned |-> "none",    \* what it returned ("none": None)
               asked |-> FALSE,        \* it sent a request
               answer |-> "none",      \* what the network answered to it
               dataBefore |-> "none",  \* _last_fetched_data before the call
               timeBefore |-> 0,       \* _last_fetch_time before the call
               gotData |-> "none",     \* the last snapshot the network delivered
               gotAt |-> NoTime]       \* and when

\* hl_exporter.py before the first lookup of parse_consensus_log_line
RdNew ==
    rd_hist = [lookups |-> 0,          \* lookups so far
               key |-> <<>>,           \* validator_short of the last one
               seen |-> <<>>,          \* the dict it consulted
               full_address |-> <<>>,  \* the label values it derived
               name |-> "none",
               roster |-> <<>>,        \* the roster last installed when it ran
               building |-> FALSE]     \* a refresh was building its dict

\* hl_exporter.py: a log monitor thread about to run, its directory holding
\* the given files
NoFile == 0
LmNew(kind, dir) ==
    /\ lm_kind = kind
    /\ lm_dir = dir
    /\ lm_latest_file = NoFile
    /\ lm_first_run = TRUE
    /\ lm_pc = "start"
    /\ lm_from_start = FALSE
    /\ lm_unread = 0
    /\ lm_beat = FALSE
    /\ lm_hist = [startedEmpty |-> FALSE, lastSleep |-> NoTime, streamed |-> {}]

\* RETRY_DELAY of hyper_liquid_validator_data.py, the default delay
RETRY_DELAY == 23

\* a function decorated with retry_on_exception(retries, delay), not called yet
RtPending == [kind |-> "pending", val |-> "none"]
RtNew(retries, delay) ==
    /\ rt_retries = retries
    /\ rt_delay = delay
    /\ rt_attempt = 0
    /\ rt_pc = "idle"
    /\ rt_result = RtPending
    /\ rt_hist = [outcomes |-> <<>>,  \* what each call of func did
                  sleeps |-> 0,       \* time.sleep(delay) calls
                  began |-> NoTime]   \* when the wrapper was called

(***************************************************************************)
(* hyper_liquid_validator_data.py : APIRateLimiter                         *)
(***************************************************************************)
MAX_CALLS_PER_MINUTE == 30
\* self.window = timedelta(minutes=1), in seconds
WINDOW == 60

\* bounds of the rate-limiter runs
MaxQuota == 2
MaxIssued == 5
\* time the single caller spends between two wait_if_needed calls
Gaps == {0, 1, 59, 60}

\* while self.calls and (now - self.calls[0]) > self.window: self.calls.popleft()
RECURSIVE PruneOld(_, _)
PruneOld(q, t) ==
    IF q # <<>> /\ (t - Head(q)) > WINDOW THEN PruneOld(Tail(q), t) ELSE q

\* the time.sleep(wait_time) of wait_if_needed: 0 when the call does not sleep
WaitTime(q, t, quota) ==
    IF Len(q) >= quota
    THEN LET wait_time == Head(q) + WINDOW - t
         IN  IF wait_time > 0 THEN wait_time ELSE 0
    ELSE 0

\* the timestamp wait_if_needed records: the time read on entry
RecordedStamp(t, slept) == t

\* the threads that may call wait_if_needed on the one APIRateLimiter
MaxCallers == 2
Callers == 1..MaxCallers

\* a caller outside wait_if_needed
ThreadIdle == [pc |-> "idle", t |-> NoTime, wake |-> NoTime]

\* APIRateLimiter.__init__
RateLimiterNew(quota) ==
    /\ calls = <<>>
    /\ max_calls = quota
    /\ admitted = <<>>
    /\ issued = 0
    /\ rl_threads = [c \in Callers |-> ThreadIdle]

\* constants of hyper_liquid_validator_data.py
API_MAX_RETRIES == 3
INITIAL_BACKOFF == 1
MAX_BACKOFF == 300
DEFAULT_RETRY_AFTER == 60

\* history of a HyperLiquidAPI client
ApiHistInit ==
    [ fetches     |-> 0,        \* fetch_validator_data invocations so far
      netCalls    |-> 0,        \* requests.post calls of the current invocation
      backoffs    |-> 0,        \* _exponential_backoff calls since backoff_time was last reset
      suchFails   |-> 0,        \* transport and HTTP-error failures since the last HTTP 200
      prevBackoffs |-> 0,       \* value of backoffs when backoff_time was last reset
      lastKind    |-> "none",   \* outcome of the last attempt
      lastDelay   |-> NoTime,   \* the delay slept at the end of the last attempt
      lastHeader  |-> [present |-> FALSE],  \* Retry-After of the last response
      backoffBefore |-> NoTime, \* backoff_time when the last attempt began
      rateLimited |-> 0,        \* 429 responses so far
      badBodies   |-> 0 ]       \* 200 responses with an unusable body so far

\* HyperLiquidAPI.__init__ (its rate limiter is RateLimiterNew)
ApiNew ==
    /\ api_backoff_time = INITIAL_BACKOFF
    /\ api_attempt = 0
    /\ api_pc = "idle"
    /\ api_result = "none"
    /\ api_hist = ApiHistInit

InitRateLimiter ==
    /\ prog = "rate_limiter"
    /\ now = 0
    /\ \E quota \in 1..MaxQuota : RateLimiterNew(quota)
    /\ NoMonitor
    /\ ApiNew
    /\ JsNew
    /\ RtNew(API_MAX_RETRIES, RETRY_DELAY)
    /\ LmNew("proposal_count", {})
    /\ RdNew
    /\ FcNew
    /\ BtNew
    /\ UmNew
    /\ StNew({}, FALSE)
    /\ AmNew(TRUE, TRUE, 1)

\* The caller, back from wait_if_needed, does something else for d seconds
\* before its next call.
CallerIdle(d) ==
    /\ prog = "rate_limiter"
    /\ issued < MaxIssued
    /\ admitted # <<>>
    /\ admitted[Len(admitted)] = now
    /\ now' = now + d
    /\ UNCHANGED <<prog, rtVars, lmVars, rdVars, fcVars, btVars, umVars, stVars, rlVars, apiVars, jsVars, amVars, monVars>>

\* APIRateLimiter.wait_if_needed, called by a single caller at time now.
WaitIfNeeded ==
    /\ prog = "rate_limiter"
    /\ issued < MaxIssued
    /\ LET pruned == PruneOld(calls, now)
           slept == WaitTime(pruned, now, max_calls)
       IN  /\ calls' = Append(pruned, RecordedStamp(now, slept))
           /\ now' = now + slept
           /\ admitted' = Append(admitted, now + slept)
    /\ issued' = issued + 1
    /\ UNCHANGED <<prog, rtVars, lmVars, rdVars, fcVars, btVars, umVars, stVars, max_calls, rl_threads, apiVars, jsVars, amVars, monVars>>

NextRateLimiter ==
    \/ \E d \in Gaps \ {0} : CallerIdle(d)
    \/ WaitIfNeeded

SpecRateLimiter == InitRateLimiter /\ [][NextRateLimiter]_vars

(***************************************************************************)
(* APIRateLimiter shared by several threads.  wait_if_needed takes no      *)
(* lock, so a thread switch may fall between any two of its statements;    *)
(* the steps below are: the entry with the pruning loop, the test of the   *)
(* quota with the start of the sleep, and the append.                      *)
(***************************************************************************)
\* bound of the clock in the runs with several callers
MaxTimeConc == 61
\* the steps by which the clock advances in those runs
SharedGaps == {WINDOW \div 2, WINDOW}

InitSharedLimiter ==
    /\ prog = "rate_limiter_shared"
    /\ now = 0
    /\ \E quota \in 1..MaxQuota : RateLimiterNew(quota)
    /\ NoMonitor
    /\ ApiNew
    /\ JsNew
    /\ RtNew(API_MAX_RETRIES, RETRY_DELAY)
    /\ LmNew("proposal_count", {})
    /\ RdNew
    /\ FcNew
    /\ BtNew
    /\ UmNew
    /\ StNew({}, FALSE)
    /\ AmNew(TRUE, TRUE, 1)

\* now = datetime.now() and the loop removing old calls
ThreadEnter(c) ==
    /\ prog = "rate_limiter_shared"
    /\ rl_threads[c].pc = "idle"
    /\ issued < MaxIssued
    /\ issued' = issued + 1
    /\ calls' = PruneOld(calls, now)
    /\ rl_threads' = [rl_threads EXCEPT ![c] = [pc |-> "test", t |-> now, wake |-> NoTime]]
    /\ UNCHANGED <<prog, rtVars, lmVars, rdVars, fcVars, btVars, umVars, stVars, now, max_calls, admitted, apiVars, jsVars, amVars, monVars>>

\* if len(self.calls) >= self.max_calls: ... time.sleep(wait_time)
ThreadTest(c) ==
    /\ prog = "rate_limiter_shared"
    /\ rl_threads[c].pc = "test"
    /\ rl_threads' = [rl_threads EXCEPT
            ![c].pc = "append",
            ![c].wake = rl_threads[c].t + WaitTime(calls, rl_threads[c].t, max_calls)]
    /\ UNCHANGED <<prog, rtVars, lmVars, rdVars, fcVars, btVars, umVars, stVars, now, calls, max_calls, admitted, issued, apiVars, jsVars, amVars, monVars>>

\* self.calls.append(now), once the sleep (if any) is over, and the return
ThreadAppend(c) ==
    /\ prog = "rate_limiter_shared"
    /\ rl_threads[c].pc = "append"
    /\ now >= rl_threads[c].wake
    /\ calls' = Append(calls, RecordedStamp(rl_threads[c].t, rl_threads[c].wake - rl_threads[c].t))
    /\ admitted' = Append(admitted, now)
    /\ rl_threads' = [rl_threads EXCEPT ![c] = ThreadIdle]
    /\ UNCHANGED <<prog, rtVars, lmVars, rdVars, fcVars, btVars, umVars, stVars, now, max_calls, issued, apiVars, jsVars, amVars, monVars>>

\* Time passes by d seconds; a thread whose sleep is over runs first.
SharedAdvance(d) ==
    /\ prog = "rate_limiter_shared"
    /\ now < MaxTimeConc
    /\ \A c \in Callers : rl_threads[c].pc = "append" => now + d <= rl_threads[c].wake
    /\ now' = now + d
    /\ UNCHANGED <<prog, rtVars, lmVars, rdVars, fcVars, btVars, umVars, stVars, rlVars, apiVars, jsVars, amVars, monVars>>

NextSharedLimiter ==
    \/ \E c \in Callers : ThreadEnter(c)
    \/ \E c \in Callers : ThreadTest(c)
    \/ \E c \in Callers : ThreadAppend(c)
    \/ \E d \in SharedGaps : SharedAdvance(d)

SpecSharedLimiter == InitSharedLimiter /\ [][NextSharedLimiter]_vars

(***************************************************************************)
(* hyper_liquid_validator_data.py : HyperLiquidAPI.fetch_validator_data    *)
(*                                                                         *)
(* One client object, whose fetch_validator_data is invoked again and      *)
(* again by a single thread.                                               *)
(***************************************************************************)
\* bounds of the runs of a client, and of what the server may answer
MaxFetches == 4
MaxRateLimited == 1
MaxBadBodies == 1

\* What one attempt meets:
\*   "ok"                HTTP 200 with a usable body
\*   "bad_body"          HTTP 200 whose body raises in response.json() or len(data)
\*   "rate_limited"      HTTP 429, with or without a Retry-After header
\*   "http_error"        another HTTP error status: raise_for_status raises
\*   "transport"         requests.post raises
ApiOutcomes == {"ok", "bad_body", "rate_limited", "http_error", "transport"}

\* The Retry-After header of a response: absent, or its text, character by
\* character: seconds, a negative number, an HTTP date.
NoRetryAfter == [present |-> FALSE]
RetryAfterTexts == {<<"1", "5">>, <<"-", "1">>, <<"W", "e", "d">>}
RetryAfterHeaders ==
    {NoRetryAfter} \cup [present : {TRUE}, text : RetryAfterTexts]

Digits == <<"0", "1", "2", "3", "4", "5", "6", "7", "8", "9">>
IsDigit(c) == \E i \in 1..10 : Digits[i] = c
DigitValue(c) == (CHOOSE i \in 1..10 : Digits[i] = c) - 1

RECURSIVE DecimalValue(_)
DecimalValue(text) ==
    IF text = <<>> THEN 0
    ELSE 10 * DecimalValue(SubSeq(text, 1, Len(text) - 1)) + DigitValue(text[Len(text)])

AllDigits(text) == text # <<>> /\ \A i \in 1..Len(text) : IsDigit(text[i])

\* int(text): an optional sign, then decimal digits; anything else raises
ParseInt(text) ==
    IF AllDigits(text) THEN [ok |-> TRUE, val |-> DecimalValue(text)]
    ELSE IF text # <<>> /\ text[1] \in {"-", "+"} /\ AllDigits(Tail(text))
    THEN [ok |-> TRUE,
          val |-> IF text[1] = "-" THEN 0 - DecimalValue(Tail(text))
                  ELSE DecimalValue(Tail(text))]
    ELSE [ok |-> FALSE]

\* a faulty handler that never reads the header
HandleRateLimitIgnoringHeader(header) == [ok |-> TRUE, val |-> DEFAULT_RETRY_AFTER]

\* _handle_rate_limit: int(response.headers.get('Retry-After', DEFAULT_RETRY_AFTER))
HandleRateLimit(header) ==
    IF header.present THEN ParseInt(header.text)
    ELSE [ok |-> TRUE, val |-> DEFAULT_RETRY_AFTER]

\* the 429 branch raises: in int() for a text that is no integer, in
\* time.sleep for a negative one
RetryAfterRaises(header) ==
    LET r == HandleRateLimit(header) IN ~r.ok \/ r.val < 0

\* how an attempt ends: a 429 whose branch raises is "rate_limited_bad"
ApiKind(outcome, header) ==
    IF outcome = "rate_limited" /\ RetryAfterRaises(header) THEN "rate_limited_bad"
    ELSE outcome

\* the outcomes that end in an except clause, that is in _exponential_backoff
ApiBacksOff(outcome) == outcome \in {"bad_body", "rate_limited_bad", "http_error", "transport"}

\* the answers the bounds still allow
ApiMayMeet(h, outcome) ==
    CASE outcome \in {"rate_limited", "rate_limited_bad"} -> h.rateLimited < MaxRateLimited
      [] outcome = "bad_body" -> h.badBodies < MaxBadBodies
      [] OTHER -> TRUE

\* while attempt < MAX_RETRIES
FetchLoopContinuesOneMore(attempt) == attempt <= API_MAX_RETRIES

FetchLoopContinues(attempt) == attempt < API_MAX_RETRIES

\* wait_time = min(self.backoff_time, MAX_BACKOFF)
BackoffWait(backoff_time) == IF backoff_time < MAX_BACKOFF THEN backoff_time ELSE MAX_BACKOFF

\* a faulty backoff that grows by a constant
NextBackoffLinear(backoff_time) == backoff_time + INITIAL_BACKOFF

\* self.backoff_time *= 2
NextBackoff(backoff_time) == backoff_time * 2

\* a faulty success path that keeps the backoff value
BackoffKept(backoff_time) == backoff_time

\* self.backoff_time = INITIAL_BACKOFF  # Reset backoff on success
BackoffAfterSuccess(backoff_time) == INITIAL_BACKOFF

\* The caller invokes fetch_validator_data: attempt = 0.
FetchBegin ==
    /\ prog = "hl_api"
    /\ api_pc = "idle"
    /\ api_hist.fetches < MaxFetches
    /\ api_pc' = "loop"
    /\ api_attempt' = 0
    /\ api_result' = "pending"
    /\ api_hist' = [api_hist EXCEPT !.fetches = @ + 1, !.netCalls = 0,
                                    !.lastKind = "none", !.lastDelay = NoTime,
                                    !.lastHeader = NoRetryAfter,
                                    !.backoffBefore = NoTime]
    /\ UNCHANGED <<prog, rtVars, lmVars, rdVars, fcVars, btVars, umVars, stVars, now, rlVars, api_backoff_time, jsVars, amVars, monVars>>

\* One iteration of the while loop of fetch_validator_data: wait_if_needed,
\* the request, the handling of its outcome with the sleep it leads to.
FetchAttempt(answer, header) ==
    /\ prog = "hl_api"
    /\ api_pc = "loop"
    /\ FetchLoopContinues(api_attempt)
    /\ answer # "rate_limited" => header = NoRetryAfter
    /\ ApiMayMeet(api_hist, answer)
    /\ LET outcome == ApiKind(answer, header)
           pruned == PruneOld(calls, now)
           slept == WaitTime(pruned, now, max_calls)
           \* a 200 resets backoff_time before the body is read
           b == IF outcome \in {"ok", "bad_body"}
                THEN BackoffAfterSuccess(api_backoff_time) ELSE api_backoff_time
           delay == CASE ApiBacksOff(outcome) -> BackoffWait(b)
                      [] outcome = "rate_limited" -> HandleRateLimit(header).val
                      [] OTHER -> 0
           reset == outcome \in {"ok", "bad_body"}
           k == IF reset THEN 0 ELSE api_hist.backoffs
       IN  /\ calls' = Append(pruned, RecordedStamp(now, slept))
           /\ now' = now + slept + delay
           /\ api_backoff_time' = IF ApiBacksOff(outcome) THEN NextBackoff(b) ELSE b
           /\ api_hist' = [api_hist EXCEPT
                  !.netCalls = @ + 1,
                  !.backoffs = IF ApiBacksOff(outcome) THEN k + 1 ELSE k,
                  !.prevBackoffs = IF reset THEN api_hist.backoffs ELSE @,
                  !.suchFails = CASE reset -> 0
                                  [] outcome \in {"http_error", "transport"} -> @ + 1
                                  [] OTHER -> @,
                  !.lastKind = outcome,
                  !.lastDelay = IF outcome = "ok" THEN NoTime ELSE delay,
                  !.lastHeader = header,
                  !.backoffBefore = api_backoff_time,
                  !.rateLimited = IF outcome \in {"rate_limited", "rate_limited_bad"}
                                  THEN @ + 1 ELSE @,
                  !.badBodies = IF outcome = "bad_body" THEN @ + 1 ELSE @]
           /\ IF outcome = "ok"
              THEN /\ api_pc' = "idle"
                   /\ api_result' = "data"
                   /\ UNCHANGED api_attempt
              ELSE /\ api_attempt' = api_attempt + 1
                   /\ UNCHANGED <<api_pc, api_result>>
    /\ UNCHANGED <<prog, rtVars, lmVars, rdVars, fcVars, btVars, umVars, stVars, max_calls, admitted, issued, rl_threads, jsVars, amVars, monVars>>

\* The loop is left with attempt = MAX_RETRIES: return None.
FetchGiveUp ==
    /\ prog = "hl_api"
    /\ api_pc = "loop"
    /\ ~FetchLoopContinues(api_attempt)
    /\ api_pc' = "idle"
    /\ api_result' = "None"
    /\ UNCHANGED <<prog, rtVars, lmVars, rdVars, fcVars, btVars, umVars, stVars, now, rlVars, api_backoff_time, api_attempt, api_hist, jsVars, amVars, monVars>>

InitApi ==
    /\ prog = "hl_api"
    /\ now = 0
    /\ RateLimiterNew(MAX_CALLS_PER_MINUTE)
    /\ ApiNew
    /\ JsNew
    /\ RtNew(API_MAX_RETRIES, RETRY_DELAY)
    /\ LmNew("proposal_count", {})
    /\ RdNew
    /\ FcNew
    /\ BtNew
    /\ UmNew
    /\ StNew({}, FALSE)
    /\ AmNew(TRUE, TRUE, 1)
    /\ NoMonitor

NextApi ==
    \/ FetchBegin
    \/ \E answer \in ApiOutcomes, header \in RetryAfterHeaders : FetchAttempt(answer, header)
    \/ FetchGiveUp

SpecApi == InitApi /\ [][NextApi]_vars

\* the client's thread keeps running
SpecApiFair == SpecApi /\ WF_vars(NextApi)

(***************************************************************************)
(* alert_hyperliqyud_validator_jail_status.py : process_server             *)
(*                                                                         *)
(* Each thread runs process_server for its own server; the threads share   *)
(* nothing.  One step is one iteration of the while-True loop: the fetch,  *)
(* what the iteration does with the answer, and the sleep that ends it.    *)
(* The step of a thread happens when its sleep ends, so the steps of the   *)
(* threads happen in the order of their wake times.                        *)
(***************************************************************************)
JS_RETRY_SLEEP == 60
JS_JAILED_MIN_SLEEP == 600
JS_HEALTHY_SLEEP == 300

\* bound of the runs: loop iterations of one thread
MaxJsFetches == 3

\* What one iteration meets at its fetch:
\*   "transport"  requests.post raises (connection error, timeout, ...)
\*   "non200"     a response whose status is not 200
\*   "bad_body"   status 200 with a body that response.json() cannot parse
\*   "empty"      status 200 with an empty roster
\*   "absent"     a roster without a validator of the configured name
\*   "N" / "J"    a roster holding the validator, not jailed / jailed
JsOutcomes == {"transport", "non200", "bad_body", "empty", "absent", "N", "J"}

\* what the Telegram request of send_telegram_message does: answers 200,
\* answers another status, or raises
JsSendOutcomes == {"sent", "refused", "raise"}

\* unjailableAfter minus the current time, in seconds, of a jailed validator
JsUnjailIn == {0, 900}

\* fetch_validator_data propagates what requests.post and response.json
\* raise, and process_server catches nothing
JsFetchRaises(outcome) == outcome \in {"transport", "bad_body"}

\* if not data: None and the empty roster alike
JsNoData(outcome) == outcome \in {"non200", "empty"}

\* the sleep that ends an iteration which did not raise
JsSleep(outcome, unjailIn) ==
    CASE JsNoData(outcome)  -> JS_RETRY_SLEEP
      [] outcome = "J"      -> IF unjailIn > JS_JAILED_MIN_SLEEP THEN unjailIn
                               ELSE JS_JAILED_MIN_SLEEP
      [] outcome = "N"      -> JS_HEALTHY_SLEEP
      [] OTHER              -> 0

\* the iteration ends process_server with an exception
JsIterationRaises(outcome, send) ==
    JsFetchRaises(outcome) \/ (outcome = "J" /\ send = "raise")

\* one iteration of the loop of process_server in the thread of server s
ProcessServerStep(s, outcome, send, unjailIn) ==
    /\ prog = "jail_status_alert"
    /\ js_threads[s].alive
    /\ js_threads[s].fetches < MaxJsFetches
    /\ \A t \in JsServers :
          (js_threads[t].alive /\ js_threads[t].fetches < MaxJsFetches)
              => js_threads[s].wake <= js_threads[t].wake
    /\ outcome = "J" \/ (send = "sent" /\ unjailIn = 0)
    /\ LET th == js_threads[s]
           at == IF th.wake > now THEN th.wake ELSE now
       IN  /\ now' = at
           /\ js_threads' = [js_threads EXCEPT ![s] =
                  [ alive       |-> ~JsIterationRaises(outcome, send),
                    wake        |-> at + JsSleep(outcome, unjailIn),
                    fetches     |-> th.fetches + 1,
                    lastFetch   |-> at,
                    lastGap     |-> IF th.lastFetch = NoTime THEN NoTime
                                    ELSE at - th.lastFetch,
                    lastOutcome |-> outcome ]]
    /\ UNCHANGED <<prog, rtVars, lmVars, rdVars, fcVars, btVars, umVars, stVars, rlVars, apiVars, amVars, monVars>>

InitJailStatus ==
    /\ prog = "jail_status_alert"
    /\ now = 0
    /\ RateLimiterNew(MAX_CALLS_PER_MINUTE)
    /\ NoMonitor
    /\ ApiNew
    /\ JsNew
    /\ RtNew(API_MAX_RETRIES, RETRY_DELAY)
    /\ LmNew("proposal_count", {})
    /\ RdNew
    /\ FcNew
    /\ BtNew
    /\ UmNew
    /\ StNew({}, FALSE)
    /\ AmNew(TRUE, TRUE, 1)

NextJailStatus ==
    \E s \in JsServers, outcome \in JsOutcomes, send \in JsSendOutcomes,
       unjailIn \in JsUnjailIn : ProcessServerStep(s, outcome, send, unjailIn)

SpecJailStatus == InitJailStatus /\ [][NextJailStatus]_vars

(***************************************************************************)
(* hyperliquid_validator_safeguard.py : AlertManager.send_alert            *)
(*                                                                         *)
(* One AlertManager, whose send_alert is awaited again and again.  The     *)
(* steps of one send_alert are its start, the Telegram send of             *)
(* send_telegram_alert and each call of make_calls.                        *)
(***************************************************************************)
\* await asyncio.sleep(2) of make_calls, "Wait between calls"
AM_CALL_PAUSE == 2

\* bounds of the AlertManager runs
MaxAmPhones == 2
MaxAlerts == 2

\* the outcome of one request to Telegram or Twilio: it succeeds or raises
SendOutcomes == {"ok", "raise"}

AlertTypes == {"telegram", "call", "both"}

\* The send_alert calls of the program, and "other": a call with arguments
\* of the caller's choice.
AlertCallers == {"jail", "success", "failure", "status_specific", "status_all",
                 "summary", "other"}

\* the alert_type and specific arguments each caller passes
ArgsOf(caller, alert_type, specific) ==
    CASE caller \in {"jail", "success", "failure"} ->
             alert_type = "both" /\ specific
      [] caller = "status_specific" -> alert_type = "telegram" /\ specific
      [] caller \in {"status_all", "summary"} -> alert_type = "telegram" /\ ~specific
      [] OTHER -> TRUE

\* if alert_type in ['telegram', 'both'] and self.telegram_bot
TelegramWanted(alert_type, bot) == alert_type \in {"telegram", "both"} /\ bot

\* a faulty test that places calls for broadcast alerts too
CallsWantedForAll(alert_type, specific, twilio) ==
    alert_type \in {"call", "both"} /\ twilio

\* if alert_type in ['call', 'both'] and specific and self.twilio_client
CallsWanted(alert_type, specific, twilio) ==
    alert_type \in {"call", "both"} /\ specific /\ twilio

\* chat_id of send_telegram_alert
ChatOf(specific) == IF specific THEN "chat_specific" ELSE "chat_all"

\* a faulty loop that gives up the remaining numbers after a failed call
NextPhoneStopsOnFailure(i, outcome, phones) ==
    IF outcome = "raise" THEN phones + 1 ELSE i + 1

\* for phone in self.config['phone_numbers']: the try/except is inside the
\* loop body, so the loop goes on to the next number whatever the outcome
NextPhone(i, outcome, phones) == i + 1

\* where send_alert goes after its Telegram part
AfterTelegram(args) ==
    IF CallsWanted(args.alert_type, args.specific, am_twilio) /\ am_phones > 0
    THEN "calls" ELSE "returned"

\* send_alert is awaited
SendAlertBegin(caller, alert_type, specific) ==
    /\ prog = "alert_manager"
    /\ am_pc \in {"idle", "returned"}
    /\ am_count < MaxAlerts
    /\ ArgsOf(caller, alert_type, specific)
    /\ LET args == [caller |-> caller, alert_type |-> alert_type, specific |-> specific]
       IN  /\ am_args' = args
           /\ am_pc' = IF TelegramWanted(alert_type, am_bot) THEN "telegram"
                       ELSE AfterTelegram(args)
    /\ am_i' = 1
    /\ am_log' = <<>>
    /\ am_count' = am_count + 1
    /\ UNCHANGED <<prog, rtVars, lmVars, rdVars, fcVars, btVars, umVars, stVars, now, rlVars, apiVars, jsVars, am_bot, am_twilio, am_phones,
                   am_raised, monVars>>

\* send_telegram_alert: the send and, when it raises, the except clause
SendTelegramAlert(outcome) ==
    /\ prog = "alert_manager"
    /\ am_pc = "telegram"
    /\ am_log' = Append(am_log, [dest |-> ChatOf(am_args.specific), phone |-> 0,
                                  outcome |-> outcome])
    /\ am_pc' = AfterTelegram(am_args)
    /\ UNCHANGED <<prog, rtVars, lmVars, rdVars, fcVars, btVars, umVars, stVars, now, rlVars, apiVars, jsVars, am_bot, am_twilio, am_phones,
                   am_args, am_i, am_raised, am_count, monVars>>

\* one iteration of the loop of make_calls
MakeCall(outcome) ==
    /\ prog = "alert_manager"
    /\ am_pc = "calls"
    /\ am_i <= am_phones
    /\ am_log' = Append(am_log, [dest |-> "call", phone |-> am_i, outcome |-> outcome])
    /\ am_i' = NextPhone(am_i, outcome, am_phones)
    /\ am_pc' = IF am_i' > am_phones THEN "returned" ELSE "calls"
    /\ now' = IF outcome = "ok" THEN now + AM_CALL_PAUSE ELSE now
    /\ UNCHANGED <<prog, rtVars, lmVars, rdVars, fcVars, btVars, umVars, stVars, rlVars, apiVars, jsVars, am_bot, am_twilio, am_phones,
                   am_args, am_raised, am_count, monVars>>

InitAlertManager ==
    /\ prog = "alert_manager"
    /\ now = 0
    /\ RateLimiterNew(MAX_CALLS_PER_MINUTE)
    /\ NoMonitor
    /\ ApiNew
    /\ JsNew
    /\ RtNew(API_MAX_RETRIES, RETRY_DELAY)
    /\ LmNew("proposal_count", {})
    /\ RdNew
    /\ FcNew
    /\ BtNew
    /\ UmNew
    /\ StNew({}, FALSE)
    /\ \E bot \in BOOLEAN, twilio \in BOOLEAN, phones \in 0..MaxAmPhones :
          AmNew(bot, twilio, phones)

NextAlertManager ==
    \/ \E caller \in AlertCallers, alert_type \in AlertTypes, specific \in BOOLEAN :
          SendAlertBegin(caller, alert_type, specific)
    \/ \E outcome \in SendOutcomes : SendTelegramAlert(outcome)
    \/ \E outcome \in SendOutcomes : MakeCall(outcome)

SpecAlertManager == InitAlertManager /\ [][NextAlertManager]_vars

(***************************************************************************)
(* main() of hyperliquid_validator_safeguard.py and of telegram_alert.py   *)
(***************************************************************************)
\* required of ConfigLoader.validate_config
SgRequired ==
    {"telegram_token", "telegram_chat_id_specific", "telegram_chat_id_all",
     "validator_address", "private_key",
     "twilio_sid", "twilio_token", "twilio_from"}

\* what main() of telegram_alert.py needs: a readable, non-empty .env_hyper
\* and its two settings
TgRequired == {"env_file", "PRIVATE_KEY", "VALIDATOR_ADDRESS"}

\* validate_config: no required field is missing
ValidateConfig(present) == SgRequired \subseteq present

\* main() of the safeguard up to the construction of the components:
\* load_config, validate_config, and the return on an invalid configuration.
\* A coroutine main() that returns ends asyncio.run(main(args)), the last
\* statement of the script: the interpreter exits with status 0.
SgMainValidate ==
    /\ prog = "safeguard_main"
    /\ st_pc = "start"
    /\ IF ValidateConfig(st_present)
       THEN /\ st_pc' = "components"
            /\ UNCHANGED st_exit
       ELSE /\ st_pc' = "exited"
            /\ st_exit' = 0
    /\ UNCHANGED <<prog, rtVars, lmVars, rdVars, fcVars, btVars, umVars, now, rlVars, apiVars, jsVars, amVars, st_present, st_test, monVars>>

\* main() of the safeguard after the components are built: the test
\* commands and the return, or monitor_loop
SgMainRun ==
    /\ prog = "safeguard_main"
    /\ st_pc = "components"
    /\ IF st_test
       THEN /\ st_pc' = "exited"
            /\ st_exit' = 0
            /\ UNCHANGED loop_running
       ELSE /\ st_pc' = "loop"
            /\ loop_running' = TRUE
            /\ UNCHANGED st_exit
    /\ UNCHANGED <<prog, rtVars, lmVars, rdVars, fcVars, btVars, umVars, now, rlVars, apiVars, jsVars, amVars, st_present, st_test, hist,
                   tgVars, nodeVars, twVars, sgVars>>

\* main() of telegram_alert.py: sys.exit(1) when .env_hyper cannot be
\* loaded or a setting is missing, monitor_loop otherwise
TgMain ==
    /\ prog = "telegram_main"
    /\ st_pc = "start"
    /\ IF TgRequired \subseteq st_present
       THEN /\ st_pc' = "loop"
            /\ loop_running' = TRUE
            /\ UNCHANGED st_exit
       ELSE /\ st_pc' = "exited"
            /\ st_exit' = 1
            /\ UNCHANGED loop_running
    /\ UNCHANGED <<prog, rtVars, lmVars, rdVars, fcVars, btVars, umVars, now, rlVars, apiVars, jsVars, amVars, st_present, st_test, hist,
                   tgVars, nodeVars, twVars, sgVars>>

InitStartup ==
    /\ now = 0
    /\ RateLimiterNew(MAX_CALLS_PER_MINUTE)
    /\ NoMonitor
    /\ ApiNew
    /\ JsNew
    /\ RtNew(API_MAX_RETRIES, RETRY_DELAY)
    /\ LmNew("proposal_count", {})
    /\ RdNew
    /\ FcNew
    /\ BtNew
    /\ UmNew
    /\ AmNew(TRUE, TRUE, 1)
    /\ \/ /\ prog = "safeguard_main"
          /\ \E present \in SUBSET SgRequired, test \in BOOLEAN : StNew(present, test)
       \/ /\ prog = "telegram_main"
          /\ \E present \in SUBSET TgRequired : StNew(present, FALSE)

NextStartup ==
    \/ SgMainValidate
    \/ SgMainRun
    \/ TgMain

SpecStartup == InitStartup /\ [][NextStartup]_vars

(***************************************************************************)
(* hl_exporter.py : update_validator_mapping                               *)
(*                                                                         *)
(* The updater thread.  One refresh is the request, one step for each      *)
(* summary of the for loop that fills the local new_mapping, and the       *)
(* assignment to the global; every attempt ends in time.sleep(600).        *)
(* An address is a sequence of characters.                                 *)
(***************************************************************************)
UM_PERIOD == 600
\* full_address[:6] and full_address[-4:]
SHORT_PREFIX == 6
SHORT_SUFFIX == 4

\* bounds of the exporter runs
MaxRefreshes == 2
MaxRoster == 2

\* Addresses of the rosters tried.  AddrA and AddrB differ only in the
\* middle; AddrS is shorter than the prefix.
AddrA == <<"0", "x", "a", "a", "a", "a", "1", "1", "b", "b", "b", "b">>
AddrB == <<"0", "x", "a", "a", "a", "a", "2", "2", "b", "b", "b", "b">>
AddrC == <<"0", "x", "c", "c", "c", "c", "3", "3", "d", "d", "d", "d">>
AddrS == <<"0", "x", "e">>
Addresses == {AddrA, AddrB, AddrC, AddrS}

\* A summary of the roster: a dict that may lack 'validator' or 'name'.
Summaries ==
    [validator : Addresses, name : {"Alpha"}] \cup [validator : Addresses]
        \cup {[name |-> "Alpha"]}

RECURSIVE SeqsUpTo(_, _)
SeqsUpTo(S, n) ==
    IF n = 0 THEN {<<>>}
    ELSE LET shorter == SeqsUpTo(S, n - 1)
         IN  shorter \cup {Append(q, x) : q \in {r \in shorter : Len(r) = n - 1}, x \in S}

\* the rosters response.json() may return
UmRosters == SeqsUpTo(Summaries, MaxRoster)

\* what the request of a refresh meets: a roster, or a failure of
\* requests.post, of raise_for_status or of response.json()
UmFailures == {"request_error", "bad_status", "bad_body"}

\* Python's s[:n] and s[-n:]
SliceHead(s, n) == SubSeq(s, 1, IF Len(s) < n THEN Len(s) ELSE n)
SliceTail(s, n) == SubSeq(s, IF Len(s) < n THEN 1 ELSE Len(s) - n + 1, Len(s))

\* shortened_address = f"{full_address[:6]}..{full_address[-4:]}"
Shorten(full_address) ==
    SliceHead(full_address, SHORT_PREFIX) \o <<".", ".">> \o SliceTail(full_address, SHORT_SUFFIX)

\* summary.get('name', 'Unknown')
NameOf(summary) == IF "name" \in DOMAIN summary THEN summary.name ELSE "Unknown"

\* {'full_address': full_address, 'name': name}
EntryOf(summary) == [full_address |-> summary.validator, name |-> NameOf(summary)]

\* mapping[key] = entry on a dict
DictPut(mapping, key, entry) ==
    [k \in (DOMAIN mapping) \cup {key} |-> IF k = key THEN entry ELSE mapping[k]]

\* a faulty refresh that merges the new entries into the old mapping
InstalledMerged(old, new) ==
    [k \in (DOMAIN old) \cup (DOMAIN new) |-> IF k \in DOMAIN new THEN new[k] ELSE old[k]]

\* validator_mapping = new_mapping: the global is rebound to the new dict
Installed(old, new) == new

\* a faulty failure path that leaves the global empty
UmFailClearing ==
    /\ um_pc' = "fetch"
    /\ new_mapping' = <<>>
    /\ um_i' = 1
    /\ um_hist' = [um_hist EXCEPT !.refreshes = @ + 1, !.last = "fail"]
    /\ now' = now + UM_PERIOD
    /\ validator_mapping' = <<>>
    /\ UNCHANGED hl_validator_count_gauge

\* the except clause and time.sleep(600) that end a failed refresh
UmFail ==
    /\ um_pc' = "fetch"
    /\ new_mapping' = <<>>
    /\ um_i' = 1
    /\ um_hist' = [um_hist EXCEPT !.refreshes = @ + 1, !.last = "fail"]
    /\ now' = now + UM_PERIOD
    /\ UNCHANGED <<validator_mapping, hl_validator_count_gauge>>

\* the request of a refresh fails
UmFetchFails(failure) ==
    /\ prog = "hl_exporter"
    /\ um_pc = "fetch"
    /\ um_hist.refreshes < MaxRefreshes
    /\ failure \in UmFailures
    /\ UmFail
    /\ UNCHANGED <<prog, rtVars, lmVars, rdVars, fcVars, btVars, rlVars, apiVars, jsVars, amVars, stVars, validator_summaries, monVars>>

\* the request of a refresh returns a roster
UmFetch(roster) ==
    /\ prog = "hl_exporter"
    /\ um_pc = "fetch"
    /\ um_hist.refreshes < MaxRefreshes
    /\ validator_summaries' = roster
    /\ new_mapping' = <<>>
    /\ um_i' = 1
    /\ um_pc' = "build"
    /\ UNCHANGED <<prog, rtVars, lmVars, rdVars, fcVars, btVars, now, rlVars, apiVars, jsVars, amVars, stVars, validator_mapping,
                   hl_validator_count_gauge, um_hist, monVars>>

\* one iteration of 'for summary in validator_summaries'; summary['validator']
\* raises KeyError on a summary without the key
UmBuildStep ==
    /\ prog = "hl_exporter"
    /\ um_pc = "build"
    /\ um_i <= Len(validator_summaries)
    /\ LET summary == validator_summaries[um_i]
       IN  IF "validator" \notin DOMAIN summary
           THEN UmFail
           ELSE /\ new_mapping' = DictPut(new_mapping, Shorten(summary.validator),
                                          EntryOf(summary))
                /\ um_i' = um_i + 1
                /\ UNCHANGED <<now, um_pc, um_hist, validator_mapping,
                               hl_validator_count_gauge>>
    /\ UNCHANGED <<prog, rtVars, lmVars, rdVars, fcVars, btVars, rlVars, apiVars, jsVars, amVars, stVars, validator_summaries, monVars>>

\* after the loop: the assignment to the global, the gauge and the sleep
UmAssign ==
    /\ prog = "hl_exporter"
    /\ um_pc = "build"
    /\ um_i > Len(validator_summaries)
    /\ validator_mapping' = Installed(validator_mapping, new_mapping)
    /\ hl_validator_count_gauge' = Len(validator_summaries)
    /\ um_hist' = [refreshes |-> um_hist.refreshes + 1, last |-> "ok",
                   installed |-> validator_summaries]
    /\ um_pc' = "fetch"
    /\ new_mapping' = <<>>
    /\ um_i' = 1
    /\ now' = now + UM_PERIOD
    /\ UNCHANGED <<prog, rtVars, lmVars, rdVars, fcVars, btVars, rlVars, apiVars, jsVars, amVars, stVars, validator_summaries, monVars>>

InitExporter ==
    /\ prog = "hl_exporter"
    /\ now = 0
    /\ RateLimiterNew(MAX_CALLS_PER_MINUTE)
    /\ NoMonitor
    /\ ApiNew
    /\ JsNew
    /\ RtNew(API_MAX_RETRIES, RETRY_DELAY)
    /\ LmNew("proposal_count", {})
    /\ RdNew
    /\ FcNew
    /\ BtNew
    /\ AmNew(TRUE, TRUE, 1)
    /\ StNew({}, FALSE)
    /\ UmNew

NextExporter ==
    \/ \E failure \in UmFailures : UmFetchFails(failure)
    \/ \E roster \in UmRosters : UmFetch(roster)
    \/ UmBuildStep
    \/ UmAssign

SpecExporter == InitExporter /\ [][NextExporter]_vars

(***************************************************************************)
(* mainnet_hyper_delgated_balance_track.py : monitor                       *)
(***************************************************************************)
BT_CHECK_INTERVAL == 900
HEARTBEAT_INTERVAL == 43200
DELEGATED_FLOOR == 1000
UNDELEGATED_CEILING == 1000
MaxBtTicks == 8
BtFetchTimes == {0, 1, 2}

\* what fetch_api_data hands to monitor: None after any exception ("failed"),
\* a falsy JSON value ("empty"), a summary whose amounts float() accepts
\* ("data") or one it rejects ("malformed")
BtResponses ==
    {[kind |-> "failed"], [kind |-> "empty"], [kind |-> "malformed"]}
    \cup [kind : {"data"}, delegated : {500, 2000}, undelegated : {0, 2000},
          total_pending_withdrawal : {0, 2000}]

\* the module defines SLACK_TOKEN and no SLACK_BOT_TOKEN
SlackBotTokenDefined == FALSE

\* send_slack_notification: the headers are built before the try, so the
\* undefined SLACK_BOT_TOKEN raises NameError into the caller; with the name
\* defined every failure of the post would be caught and printed
SendSlackNotification == IF SlackBotTokenDefined THEN "returned" ELSE "NameError"

\* (current_time - last_heartbeat_time).total_seconds() >= HEARTBEAT_INTERVAL,
\* last_heartbeat_time starting at datetime.min
HeartbeatDue(current_time, last) ==
    \/ last = NoTime
    \/ current_time - last >= HEARTBEAT_INTERVAL

\* the threshold alerts of one tick, in the order they are sent
BtAlerts(resp) ==
    (IF resp.delegated < DELEGATED_FLOOR THEN <<"delegated">> ELSE <<>>)
    \o (IF \/ resp.undelegated > UNDELEGATED_CEILING
           \/ resp.total_pending_withdrawal > UNDELEGATED_CEILING
        THEN <<"undelegated">> ELSE <<>>)

\* one pass of the while loop of monitor(); d is the time the fetch takes
BtTick(resp, d) ==
    /\ prog = "balance_track"
    /\ bt_running
    /\ bt_hist.ticks < MaxBtTicks
    /\ LET current_time == now
           truthy == resp.kind \in {"data", "malformed"}
           floatRaises == resp.kind = "malformed"
           heartbeat == truthy /\ ~floatRaises
                        /\ HeartbeatDue(current_time, last_heartbeat_time)
           sends == IF truthy /\ ~floatRaises
                    THEN (IF heartbeat THEN <<"heartbeat">> ELSE <<>>) \o BtAlerts(resp)
                    ELSE <<>>
           sendRaises == sends # <<>> /\ SendSlackNotification = "NameError"
           raised == IF floatRaises THEN "ValueError"
                     ELSE IF sendRaises THEN "NameError" ELSE "none"
       IN  /\ last_heartbeat_time' = IF heartbeat /\ ~sendRaises THEN current_time
                                     ELSE last_heartbeat_time
           /\ bt_running' = (raised = "none")
           /\ bt_hist' = [ticks |-> bt_hist.ticks + 1,
                          fetched |-> resp.kind,
                          due |-> HeartbeatDue(current_time, last_heartbeat_time),
                          posted |-> IF heartbeat /\ ~sendRaises THEN 1 ELSE 0,
                          raised |-> raised]
           /\ now' = IF raised = "none" THEN now + d + BT_CHECK_INTERVAL ELSE now + d
    /\ UNCHANGED <<prog, rtVars, lmVars, rdVars, fcVars, rlVars, apiVars, jsVars, amVars, stVars, umVars, monVars>>

InitBalanceTrack ==
    /\ prog = "balance_track"
    /\ now = 0
    /\ RateLimiterNew(MAX_CALLS_PER_MINUTE)
    /\ NoMonitor
    /\ ApiNew
    /\ JsNew
    /\ RtNew(API_MAX_RETRIES, RETRY_DELAY)
    /\ LmNew("proposal_count", {})
    /\ RdNew
    /\ FcNew
    /\ AmNew(TRUE, TRUE, 1)
    /\ StNew({}, FALSE)
    /\ UmNew
    /\ BtNew

NextBalanceTrack == \E resp \in BtResponses, d \in BtFetchTimes : BtTick(resp, d)

SpecBalanceTrack == InitBalanceTrack /\ [][NextBalanceTrack]_vars

(***************************************************************************)
(* hyperliquid_validator_safeguard.py : fetch_validator_data, called at    *)
(* any distance from the previous call (--interval sets the distance of    *)
(* the monitor loop's calls, check_all_validators calls again at once).    *)
(***************************************************************************)
MaxCacheCalls == 4
CacheGaps == {0, 1, 59, 60}

\* one call of fetch_validator_data after gap seconds; net is what the
\* network answers if a request is sent
CacheCall(gap, net) ==
    /\ prog = "safeguard_cache"
    /\ fc_hist.calls < MaxCacheCalls
    /\ LET current_time == now + gap
           f == FetchValidatorData(sg_last_fetched_data, sg_last_fetch_time,
                                   current_time, net)
           asked == ~CacheFresh(sg_last_fetched_data, sg_last_fetch_time, current_time)
       IN  /\ now' = current_time
           /\ sg_last_fetched_data' = f[2]
           /\ sg_last_fetch_time' = f[3]
           /\ fc_hist' = [calls |-> fc_hist.calls + 1,
                          at |-> current_time,
                          returned |-> f[1],
                          asked |-> asked,
                          answer |-> IF asked THEN net ELSE "none",
                          dataBefore |-> sg_last_fetched_data,
                          timeBefore |-> sg_last_fetch_time,
                          gotData |-> IF asked /\ net # "fail" THEN net
                                      ELSE fc_hist.gotData,
                          gotAt |-> IF asked /\ net # "fail" THEN current_time
                                    ELSE fc_hist.gotAt]
    /\ UNCHANGED <<prog, rtVars, lmVars, rdVars, rlVars, apiVars, jsVars, amVars, stVars, umVars, btVars,
                   loop_running, hist, tgVars, nodeVars, twVars, sg_mode,
                   sg_unjail_wait_arg, sg_in_unjail_wait, sg_unjail_start_time,
                   sg_loop_wake, sg_tasks>>

InitSafeguardCache ==
    /\ prog = "safeguard_cache"
    /\ now = 0
    /\ RateLimiterNew(MAX_CALLS_PER_MINUTE)
    /\ NoMonitor
    /\ ApiNew
    /\ JsNew
    /\ RtNew(API_MAX_RETRIES, RETRY_DELAY)
    /\ LmNew("proposal_count", {})
    /\ RdNew
    /\ FcNew
    /\ BtNew
    /\ AmNew(TRUE, TRUE, 1)
    /\ StNew({}, FALSE)
    /\ UmNew

NextSafeguardCache ==
    \E gap \in CacheGaps, net \in Rosters \cup {"fail"} : CacheCall(gap, net)

SpecSafeguardCache == InitSafeguardCache /\ [][NextSafeguardCache]_vars

(***************************************************************************)
(* hl_exporter.py : the consensus-log thread beside the mapping updater.   *)
(* Both run as threads of one process; a thread switch may fall between    *)
(* any two steps of the updater and any two lookups of the reader.         *)
(***************************************************************************)
MaxLookups == 1

\* the short ids a consensus log line may name: those of the known
\* addresses and one no roster holds
ShortIds == {Shorten(a) : a \in Addresses} \cup {<<"0", "x", ".", ".", "z">>}

\* a faulty updater that fills the dict bound to the global name
ReachedWhileBuilding(global, building) == building

\* The dict the name validator_mapping denotes while a refresh is between
\* l.181 and l.187: new_mapping is a local of the updater bound to a fresh
\* dict, the global still references the dict of the previous refresh.
Reached(global, building) == global

\* dict.get(key, {}) followed by the two .get of l.208-209
LookupIn(mapping, validator_short) ==
    IF validator_short \in DOMAIN mapping
    THEN mapping[validator_short]
    ELSE [full_address |-> validator_short, name |-> "Unknown"]

\* one iteration of 'for validator_short in all_validators' of
\* parse_consensus_log_line
ConsensusLookup(validator_short) ==
    /\ prog = "hl_exporter"
    /\ rd_hist.lookups < MaxLookups
    /\ LET seen == IF um_pc = "build" THEN Reached(validator_mapping, new_mapping)
                   ELSE validator_mapping
           mapping_entry == LookupIn(seen, validator_short)
       IN  rd_hist' = [lookups |-> rd_hist.lookups + 1,
                       key |-> validator_short,
                       seen |-> seen,
                       full_address |-> mapping_entry.full_address,
                       name |-> mapping_entry.name,
                       roster |-> um_hist.installed,
                       building |-> um_pc = "build"]
    /\ UNCHANGED <<prog, rtVars, lmVars, now, rlVars, apiVars, jsVars, amVars, stVars, umVars, btVars,
                   fcVars, monVars>>

NextExporterThreads ==
    \/ NextExporter
    \/ \E validator_short \in ShortIds : ConsensusLookup(validator_short)

SpecExporterThreads == InitExporter /\ [][NextExporterThreads]_vars

(***************************************************************************)
(* hl_exporter.py : proposal_count_monitor and block_time_monitor.  The    *)
(* two differ in their directory, their parser and their sleep.  The node  *)
(* adds files to the directory and lines to its newest file; files are     *)
(* numbered in the order of their modification times.                      *)
(***************************************************************************)
MaxFiles == 3
MaxUnread == 2
LmKinds == {"proposal_count", "block_time"}
PROPOSAL_RETRY_SLEEP == 10
BLOCK_TIME_RETRY_SLEEP == 5
STREAM_POLL_SLEEP == 1

\* time.sleep(10) of proposal_count_monitor, time.sleep(5) of block_time_monitor
LmLoopSleep(kind) ==
    IF kind = "proposal_count" THEN PROPOSAL_RETRY_SLEEP ELSE BLOCK_TIME_RETRY_SLEEP

\* get_latest_file: the file of greatest mtime, None for an empty directory
GetLatestFile(dir) ==
    IF dir = {} THEN NoFile ELSE CHOOSE f \in dir : \A g \in dir : g <= f

\* latest_file as the while loop of the monitor finds it: the value left by
\* the call before the loop or by the last stream, the directory is not
\* read again
LatestAtLoop(latest_file, dir) == latest_file

\* the node writes a new file into the directory
LmFileAppears ==
    /\ prog = "hl_log_monitor"
    /\ Cardinality(lm_dir) < MaxFiles
    /\ lm_dir' = lm_dir \cup {Cardinality(lm_dir) + 1}
    /\ UNCHANGED <<prog, rtVars, now, rlVars, apiVars, jsVars, amVars, stVars, umVars, btVars,
                   fcVars, rdVars, monVars, lm_kind, lm_latest_file, lm_first_run,
                   lm_pc, lm_from_start, lm_unread, lm_beat, lm_hist>>

\* the node appends a line to the file being streamed
LmLineWritten ==
    /\ prog = "hl_log_monitor"
    /\ lm_pc = "stream"
    /\ lm_latest_file = GetLatestFile(lm_dir)
    /\ lm_unread < MaxUnread
    /\ lm_unread' = lm_unread + 1
    /\ UNCHANGED <<prog, rtVars, now, rlVars, apiVars, jsVars, amVars, stVars, umVars, btVars,
                   fcVars, rdVars, monVars, lm_kind, lm_dir, lm_latest_file,
                   lm_first_run, lm_pc, lm_from_start, lm_beat, lm_hist>>

\* the lines before the while loop: latest_file = get_latest_file(logs_dir),
\* first_run = True
LmStart ==
    /\ prog = "hl_log_monitor"
    /\ lm_pc = "start"
    /\ lm_latest_file' = GetLatestFile(lm_dir)
    /\ lm_first_run' = TRUE
    /\ lm_pc' = "loop"
    /\ lm_hist' = [lm_hist EXCEPT !.startedEmpty = (lm_dir = {})]
    /\ UNCHANGED <<prog, rtVars, now, rlVars, apiVars, jsVars, amVars, stVars, umVars, btVars,
                   fcVars, rdVars, monVars, lm_kind, lm_dir, lm_from_start, lm_unread,
                   lm_beat>>

\* a pass of the while loop with latest_file None: the else branch and the sleep
LmLoopIdle ==
    /\ prog = "hl_log_monitor"
    /\ lm_pc = "loop"
    /\ LatestAtLoop(lm_latest_file, lm_dir) = NoFile
    /\ lm_beat' = ~lm_beat
    /\ lm_hist' = [lm_hist EXCEPT !.lastSleep = LmLoopSleep(lm_kind)]
    /\ UNCHANGED <<prog, rtVars, now, rlVars, apiVars, jsVars, amVars, stVars, umVars, btVars,
                   fcVars, rdVars, monVars, lm_kind, lm_dir, lm_latest_file,
                   lm_first_run, lm_pc, lm_from_start, lm_unread>>

\* a pass of the while loop with a file: stream_log_file opens it and, unless
\* from_start, seeks to its end; old tells how many lines the file holds
LmStreamOpen(old) ==
    /\ prog = "hl_log_monitor"
    /\ lm_pc = "loop"
    /\ LatestAtLoop(lm_latest_file, lm_dir) # NoFile
    /\ lm_latest_file' = LatestAtLoop(lm_latest_file, lm_dir)
    /\ lm_from_start' = ~lm_first_run
    /\ lm_unread' = IF ~lm_first_run THEN old ELSE 0
    /\ lm_pc' = "stream"
    /\ lm_hist' = [lm_hist EXCEPT
                      !.streamed = @ \cup {LatestAtLoop(lm_latest_file, lm_dir)}]
    /\ UNCHANGED <<prog, rtVars, now, rlVars, apiVars, jsVars, amVars, stVars, umVars, btVars,
                   fcVars, rdVars, monVars, lm_kind, lm_dir, lm_first_run, lm_beat>>

\* readline returned a line: parse_log_line / parse_block_time_line
LmStreamRead ==
    /\ prog = "hl_log_monitor"
    /\ lm_pc = "stream"
    /\ lm_unread > 0
    /\ lm_unread' = lm_unread - 1
    /\ UNCHANGED <<prog, rtVars, now, rlVars, apiVars, jsVars, amVars, stVars, umVars, btVars,
                   fcVars, rdVars, monVars, lm_kind, lm_dir, lm_latest_file,
                   lm_first_run, lm_pc, lm_from_start, lm_beat, lm_hist>>

\* readline returned nothing: return the latest file if it is another one
\* (the monitor takes it over, clears first_run and sleeps), else sleep 1
LmStreamPoll ==
    /\ prog = "hl_log_monitor"
    /\ lm_pc = "stream"
    /\ lm_unread = 0
    /\ lm_beat' = ~lm_beat
    /\ IF GetLatestFile(lm_dir) # lm_latest_file
       THEN /\ lm_latest_file' = GetLatestFile(lm_dir)
            /\ lm_first_run' = FALSE
            /\ lm_pc' = "loop"
            /\ lm_hist' = [lm_hist EXCEPT !.lastSleep = LmLoopSleep(lm_kind)]
       ELSE /\ lm_hist' = [lm_hist EXCEPT !.lastSleep = STREAM_POLL_SLEEP]
            /\ UNCHANGED <<lm_latest_file, lm_first_run, lm_pc>>
    /\ UNCHANGED <<prog, rtVars, now, rlVars, apiVars, jsVars, amVars, stVars, umVars, btVars,
                   fcVars, rdVars, monVars, lm_kind, lm_dir, lm_from_start, lm_unread>>

InitLogMonitor ==
    /\ prog = "hl_log_monitor"
    /\ now = 0
    /\ RateLimiterNew(MAX_CALLS_PER_MINUTE)
    /\ NoMonitor
    /\ ApiNew
    /\ JsNew
    /\ RtNew(API_MAX_RETRIES, RETRY_DELAY)
    /\ FcNew
    /\ RdNew
    /\ BtNew
    /\ AmNew(TRUE, TRUE, 1)
    /\ StNew({}, FALSE)
    /\ UmNew
    /\ \E kind \in LmKinds, dir \in {{}, {1}} : LmNew(kind, dir)

\* the steps of the monitor thread
LmThread ==
    \/ LmStart
    \/ LmLoopIdle
    \/ \E old \in 0..MaxUnread : LmStreamOpen(old)
    \/ LmStreamRead
    \/ LmStreamPoll

NextLogMonitor ==
    \/ LmFileAppears
    \/ LmLineWritten
    \/ LmThread

SpecLogMonitor == InitLogMonitor /\ [][NextLogMonitor]_vars

\* the monitor thread is scheduled again and again
SpecLogMonitorFair == SpecLogMonitor /\ WF_vars(LmThread)

(***************************************************************************)
(* hyper_liquid_validator_data.py : retry_on_exception                     *)
(***************************************************************************)
MaxRetriesArg == 4
RtDelays == {1, RETRY_DELAY}
RtValues == {"v1", "v2"}
\* exceptions caught by 'except Exception'
RtExceptions == {"E1", "E2"}

\* what one call of the wrapped function does
RtOutcomes ==
    [kind : {"returned"}, val : RtValues] \cup [kind : {"raised"}, val : RtExceptions]

\* a faulty test that takes the attempt after the last one for the last
RtIsLastOneLate(attempt, retries) == attempt = retries

\* if attempt == retries - 1
RtIsLast(attempt, retries) == attempt = retries - 1

\* the wrapper is called: last_exception = None, the for loop starts
RtInvoke ==
    /\ prog = "retry_wrapper"
    /\ rt_pc = "idle"
    /\ rt_pc' = "loop"
    /\ rt_attempt' = 0
    /\ rt_hist' = [rt_hist EXCEPT !.began = now]
    /\ UNCHANGED <<prog, now, rlVars, apiVars, jsVars, amVars, stVars, umVars, btVars,
                   fcVars, rdVars, lmVars, monVars, rt_retries, rt_delay, rt_result>>

\* one iteration of 'for attempt in range(retries)': the call of func and
\* what follows it
RtAttempt(outcome) ==
    /\ prog = "retry_wrapper"
    /\ rt_pc = "loop"
    /\ rt_attempt < rt_retries
    /\ rt_hist' = [rt_hist EXCEPT
                      !.outcomes = Append(@, outcome),
                      !.sleeps = IF outcome.kind = "raised" /\ ~RtIsLast(rt_attempt, rt_retries)
                                 THEN @ + 1 ELSE @]
    /\ IF outcome.kind = "returned"
       THEN \* return func(*args, **kwargs)
            /\ rt_result' = outcome
            /\ rt_pc' = "done"
            /\ UNCHANGED <<now, rt_attempt>>
       ELSE IF RtIsLast(rt_attempt, rt_retries)
       THEN \* raise last_exception
            /\ rt_result' = outcome
            /\ rt_pc' = "done"
            /\ UNCHANGED <<now, rt_attempt>>
       ELSE \* time.sleep(delay)
            /\ now' = now + rt_delay
            /\ rt_attempt' = rt_attempt + 1
            /\ UNCHANGED <<rt_result, rt_pc>>
    /\ UNCHANGED <<prog, rlVars, apiVars, jsVars, amVars, stVars, umVars, btVars,
                   fcVars, rdVars, lmVars, monVars, rt_retries, rt_delay>>

\* the for loop is exhausted: return None
RtFallThrough ==
    /\ prog = "retry_wrapper"
    /\ rt_pc = "loop"
    /\ rt_attempt >= rt_retries
    /\ rt_result' = [kind |-> "returned", val |-> "None"]
    /\ rt_pc' = "done"
    /\ UNCHANGED <<prog, now, rlVars, apiVars, jsVars, amVars, stVars, umVars, btVars,
                   fcVars, rdVars, lmVars, monVars, rt_retries, rt_delay, rt_attempt,
                   rt_hist>>

InitRetry ==
    /\ prog = "retry_wrapper"
    /\ now = 0
    /\ RateLimiterNew(MAX_CALLS_PER_MINUTE)
    /\ NoMonitor
    /\ ApiNew
    /\ JsNew
    /\ LmNew("proposal_count", {})
    /\ FcNew
    /\ RdNew
    /\ BtNew
    /\ AmNew(TRUE, TRUE, 1)
    /\ StNew({}, FALSE)
    /\ UmNew
    /\ \E retries \in 0..MaxRetriesArg, delay \in RtDelays : RtNew(retries, delay)

NextRetry ==
    \/ RtInvoke
    \/ \E outcome \in RtOutcomes : RtAttempt(outcome)
    \/ RtFallThrough

SpecRetry == InitRetry /\ [][NextRetry]_vars

(***************************************************************************)
(* Specifications: one per script, and the polling monitors together.      *)
(***************************************************************************)
InitTelegram ==
    /\ prog = "telegram_alert"
    /\ now = 0
    /\ loop_running = TRUE
    /\ hist = HistInit
    /\ TgNew /\ NodeNew /\ TwNew(1) /\ SgNew("both")
    /\ RateLimiterNew(MAX_CALLS_PER_MINUTE)
    /\ ApiNew
    /\ JsNew
    /\ RtNew(API_MAX_RETRIES, RETRY_DELAY)
    /\ LmNew("proposal_count", {})
    /\ RdNew
    /\ FcNew
    /\ BtNew
    /\ UmNew
    /\ StNew({}, FALSE)
    /\ AmNew(TRUE, TRUE, 1)

NextTelegram ==
    \E obs \in Observations, dFetch \in {0} :
        \E cmd \in (IF obs = "J" THEN CmdOutcomes ELSE {"ok"}) :
            \E recheck \in (IF obs = "J" /\ cmd = "ok" THEN Observations ELSE {"J"}),
               dCmd \in {0} :
                TgTick(obs, cmd, recheck, dFetch, dCmd, 0)

SpecTelegram == InitTelegram /\ [][NextTelegram]_vars

InitNode ==
    /\ prog = "node_auto_unjailed"
    /\ now = 0
    /\ loop_running = TRUE
    /\ hist = HistInit
    /\ TgNew /\ NodeNew /\ TwNew(1) /\ SgNew("both")
    /\ RateLimiterNew(MAX_CALLS_PER_MINUTE)
    /\ ApiNew
    /\ JsNew
    /\ RtNew(API_MAX_RETRIES, RETRY_DELAY)
    /\ LmNew("proposal_count", {})
    /\ RdNew
    /\ FcNew
    /\ BtNew
    /\ UmNew
    /\ StNew({}, FALSE)
    /\ AmNew(TRUE, TRUE, 1)

NextNode ==
    \E obs \in Observations, dFetch \in {0} :
        \E cmd \in (IF obs = "J" THEN CmdOutcomes ELSE {"ok"}),
           dCmd \in (IF obs = "J" THEN NetDelays ELSE {0}) :
            NodeTick(obs, cmd, dFetch, dCmd)

SpecNode == InitNode /\ [][NextNode]_vars

InitTwilio ==
    /\ prog = "twillio_alert"
    /\ now = 0
    /\ loop_running = TRUE
    /\ hist = HistInit
    /\ TgNew /\ NodeNew /\ SgNew("both")
    /\ \E phones \in 1..MaxPhones : TwNew(phones)
    /\ RateLimiterNew(MAX_CALLS_PER_MINUTE)
    /\ ApiNew
    /\ JsNew
    /\ RtNew(API_MAX_RETRIES, RETRY_DELAY)
    /\ LmNew("proposal_count", {})
    /\ RdNew
    /\ FcNew
    /\ BtNew
    /\ UmNew
    /\ StNew({}, FALSE)
    /\ AmNew(TRUE, TRUE, 1)

NextTwilio == \E obs \in Observations, dFetch \in NetDelays : TwTick(obs, dFetch)

SpecTwilio == InitTwilio /\ [][NextTwilio]_vars

InitSafeguard ==
    /\ prog = "safeguard"
    /\ now = 0
    /\ loop_running = TRUE
    /\ hist = HistInit
    /\ TgNew /\ NodeNew /\ TwNew(1)
    /\ \E mode \in {"specific", "all", "both"} : SgNew(mode)
    /\ RateLimiterNew(MAX_CALLS_PER_MINUTE)
    /\ ApiNew
    /\ JsNew
    /\ RtNew(API_MAX_RETRIES, RETRY_DELAY)
    /\ LmNew("proposal_count", {})
    /\ RdNew
    /\ FcNew
    /\ BtNew
    /\ UmNew
    /\ StNew({}, FALSE)
    /\ AmNew(TRUE, TRUE, 1)

NextSafeguard ==
    \/ \E net \in Rosters \cup {"fail"}, d \in NetDelays :
          \E net2 \in (IF net = "empty" /\ sg_mode # "specific"
                       THEN Rosters \cup {"fail"} ELSE {"fail"}) :
              MonitorTick(net, net2, d)
    \/ \E i \in 1..MaxTasks, raises \in BOOLEAN, d \in NetDelays : TaskStart(i, raises, d)
    \/ \E i \in 1..MaxTasks, cmd \in CmdOutcomes, d \in NetDelays : TaskUnjail(i, cmd, d)
    \/ \E i \in 1..MaxTasks : TaskFinish(i)
    \/ Advance

SpecSafeguard == InitSafeguard /\ [][NextSafeguard]_vars

\* the safeguard in mode 'specific', started with or without --unjail-wait
InitSafeguardOptions ==
    /\ prog = "safeguard"
    /\ now = 0
    /\ loop_running = TRUE
    /\ hist = HistInit
    /\ TgNew /\ NodeNew /\ TwNew(1)
    /\ \E unjail_wait \in {NoTime} \cup UnjailWaitOptions : SgStart("specific", unjail_wait)
    /\ RateLimiterNew(MAX_CALLS_PER_MINUTE)
    /\ ApiNew
    /\ JsNew
    /\ RtNew(API_MAX_RETRIES, RETRY_DELAY)
    /\ LmNew("proposal_count", {})
    /\ RdNew
    /\ FcNew
    /\ BtNew
    /\ UmNew
    /\ StNew({}, FALSE)
    /\ AmNew(TRUE, TRUE, 1)

SpecSafeguardOptions == InitSafeguardOptions /\ [][NextSafeguard]_vars

\* telegram_alert.py and node_auto_unjailed_alert_script.py
InitPollers == InitTelegram \/ InitNode
NextPollers == NextTelegram \/ NextNode
SpecPollers == InitPollers /\ [][NextPollers]_vars

\* the four monitor scripts
InitMonitors == InitTelegram \/ InitNode \/ InitTwilio \/ InitSafeguard
NextMonitors == NextTelegram \/ NextNode \/ NextTwilio \/ NextSafeguard
SpecMonitors == InitMonitors /\ [][NextMonitors]_vars

(***************************************************************************)
(* Properties                                                              *)
(***************************************************************************)

\* C1: in the safeguard at most one schedule_unjail task (created and not yet
\* returned) exists at any time; a tick that sees the validator jailed while
\* a task exists creates no second one.
C1_SingleFlight == prog = "safeguard" => Len(sg_tasks) <= 1

\* C2: in the safeguard, a task whose validator is observed not jailed before
\* UNJAIL_WAIT_TIME has elapsed never executes the unjail command.
C2_RecoveryCancelsUnjail == prog = "safeguard" => hist.staleUnjails = 0

\* the UNJAIL_WAIT_TIME of the running script
WaitOf(p) ==
    CASE p = "telegram_alert" -> TG_UNJAIL_WAIT_TIME
      [] p = "node_auto_unjailed" -> NODE_UNJAIL_WAIT_TIME
      [] OTHER -> UNJAIL_WAIT_TIME

\* the recorded jail time of the running polling monitor
LastJailedTime ==
    IF prog = "telegram_alert" THEN tg_last_jailed_time ELSE node_last_jailed_time

\* C3: in telegram_alert.py and node_auto_unjailed_alert_script.py, when a
\* not-jailed snapshot arrives before UNJAIL_WAIT_TIME has elapsed since the
\* first jailed observation, no unjail command was executed in that jailed
\* period and the recorded jail time is cleared.
C3_EarlyRecoveryNoUnjail ==
    (prog \in {"telegram_alert", "node_auto_unjailed"} /\ hist.closedEarly) =>
        (hist.closedUnjails = 0 /\ LastJailedTime = NoTime)

\* a recovery seen during the wait, after the jail time had been recorded
C3_Witness ==
    /\ prog \in {"telegram_alert", "node_auto_unjailed"}
    /\ hist.closedEarly
    /\ hist.closedUnjails = 0
    /\ LastJailedTime = NoTime

\* the time at which the next unjail attempt of telegram_alert.py is due
TgNextDue ==
    IF hist.periodUnjails = 0 THEN hist.periodStart + TG_UNJAIL_WAIT_TIME
    ELSE hist.lastUnjailEnd + TG_RETRY_WAIT_TIME

\* C4: in telegram_alert.py the unjail command is executed at most MAX_RETRIES
\* times in one jailed period; the attempt counter counts those executions;
\* and while the budget is not used up no due attempt is skipped: the next
\* tick after the due time that sees the validator jailed makes it.  So a
\* validator that stays jailed gets exactly MAX_RETRIES attempts.
C4_ExactlyMaxRetries ==
    (prog = "telegram_alert" /\ hist.periodStart # NoTime) =>
        /\ hist.periodUnjails <= TG_MAX_RETRIES
        /\ loop_running => tg_retry_count = hist.periodUnjails
        /\ (loop_running /\ hist.periodUnjails < TG_MAX_RETRIES) =>
               now < TgNextDue + TG_CHECK_INTERVAL * (1 + hist.faultsSeen)

\* a validator jailed on every snapshot, all attempts made, and a later tick
\* past the time a further retry would have been due
C4_Witness ==
    /\ prog = "telegram_alert"
    /\ hist.periodUnjails = TG_MAX_RETRIES
    /\ hist.healthySeen = 0 /\ hist.faultsSeen = 0
    /\ now >= hist.lastUnjailEnd + TG_RETRY_WAIT_TIME + TG_CHECK_INTERVAL

\* C5: in telegram_alert.py two consecutive unjail invocations of one jailed
\* period are at least RETRY_WAIT_TIME apart, measured from the end of the
\* earlier one.
C5_RetrySpacing ==
    (prog = "telegram_alert" /\ hist.lastGap # NoTime) =>
        hist.lastGap >= TG_RETRY_WAIT_TIME

\* a second attempt was made in the same jailed period
C5_Witness ==
    /\ prog = "telegram_alert"
    /\ hist.lastGap # NoTime
    /\ hist.periodUnjails >= 2

\* C6: in every monitor the first unjail attempt of a jailed period is
\* executed no earlier than UNJAIL_WAIT_TIME after the first snapshot that
\* showed the validator jailed.
C6_FirstUnjailAfterWait ==
    (prog \in {"telegram_alert", "node_auto_unjailed", "safeguard"}
        /\ hist.firstUnjailDelay # NoTime) =>
        hist.firstUnjailDelay >= WaitOf(prog)

\* C7: in twillio_alert.py the alert-call round is started at most once per
\* uninterrupted run of jailed observations, also when a fetch fails or the
\* validator is absent inside the run.
C7_OneAlertRoundPerRun == prog = "twillio_alert" => hist.periodAlerts <= 1

\* one round made, then a failed fetch and a jailed observation after it
C7_Witness ==
    /\ prog = "twillio_alert"
    /\ hist.periodAlerts = 1
    /\ hist.jailedAfterFault
    /\ tw_last_jailed_status

\* C8: in the safeguard the 'has been jailed' alert is emitted at most once
\* for each uninterrupted run of isJailed=true snapshots.
C8_OneJailAlertPerRun == prog = "safeguard" => hist.periodAlerts <= 1

\* C9: in the safeguard a tick whose snapshot shows the same isJailed value as
\* the previous snapshot emits no targeted alert.
C9_RepeatedSnapshotSilent ==
    (prog = "safeguard" /\ hist.tickRepeat) => hist.tickTargeted = 0

\* number of admissions in the trailing window (t - WINDOW, t]
AdmittedInWindow(t) ==
    Cardinality({i \in 1..Len(admitted) : admitted[i] > t - WINDOW /\ admitted[i] <= t})

\* C10: for a single caller, the number of calls admitted within any trailing
\* 60-second window never exceeds max_calls.
C10_QuotaRespected ==
    prog = "rate_limiter" =>
        \A i \in 1..Len(admitted) : AdmittedInWindow(admitted[i]) <= max_calls

\* C11: with several callers on one APIRateLimiter no interleaving of their
\* steps admits more than max_calls calls within one 60-second window.
C11_SharedQuotaRespected ==
    prog = "rate_limiter_shared" =>
        \A i \in 1..Len(admitted) : AdmittedInWindow(admitted[i]) <= max_calls

\* 2^n
RECURSIVE Pow2(_)
Pow2(n) == IF n <= 0 THEN 1 ELSE 2 * Pow2(n - 1)

\* min(INITIAL_BACKOFF * 2^(k-1), MAX_BACKOFF)
CappedBackoff(k) ==
    IF INITIAL_BACKOFF * Pow2(k - 1) < MAX_BACKOFF
    THEN INITIAL_BACKOFF * Pow2(k - 1) ELSE MAX_BACKOFF

\* C12 as stated: the delay slept after the k-th transport or HTTP-error
\* failure (429 excluded) since the client's last successful fetch is
\* min(INITIAL_BACKOFF * 2^(k-1), MAX_BACKOFF).
C12_BackoffBySuchFailures ==
    (prog = "hl_api" /\ api_hist.lastKind \in {"http_error", "transport"}) =>
        api_hist.lastDelay = CappedBackoff(api_hist.suchFails)

\* C12 amended: the delay slept by the k-th _exponential_backoff call since
\* backoff_time was last reset by an HTTP 200 (or since construction) is
\* min(INITIAL_BACKOFF * 2^(k-1), MAX_BACKOFF), where every attempt ending in
\* an except clause counts: transport and HTTP errors, a 429 whose
\* Retry-After cannot be used, a 200 whose body cannot be read; and no such
\* delay exceeds MAX_BACKOFF.
C12_BackoffByBackoffCalls ==
    (prog = "hl_api" /\ ApiBacksOff(api_hist.lastKind)) =>
        /\ api_hist.lastDelay = CappedBackoff(api_hist.backoffs)
        /\ api_hist.lastDelay <= MAX_BACKOFF

\* the cap is reached, after failures of which one was no transport or HTTP error
C12_Witness ==
    /\ prog = "hl_api"
    /\ api_hist.lastKind = "transport"
    /\ api_hist.lastDelay = MAX_BACKOFF
    /\ api_hist.suchFails < api_hist.backoffs

FetchBounded ==
    prog = "hl_api" =>
        /\ api_hist.netCalls <= API_MAX_RETRIES
        /\ (api_pc = "idle" /\ api_hist.fetches > 0) =>
               /\ api_result \in {"data", "None"}
               /\ api_result = "data" <=> api_hist.lastKind = "ok"
               /\ api_result = "None" => api_hist.netCalls = API_MAX_RETRIES

\* C14: fetch_validator_data makes at most MAX_RETRIES network calls per
\* invocation, always terminates, and when every attempt fails it returns
\* None (it returns a value in every case: nothing is raised to the caller).
C14_FetchTerminatesBounded ==
    /\ []FetchBounded
    /\ (api_pc = "loop") ~> (api_pc = "idle")

\* an invocation in which all attempts failed has returned None
C14_Witness ==
    /\ prog = "hl_api"
    /\ api_pc = "idle"
    /\ api_result = "None"
    /\ api_hist.netCalls = API_MAX_RETRIES
    /\ api_hist.rateLimited = 1

\* C15: in the safeguard a fetch_validator_data call made less than
\* CACHE_EXPIRY seconds after a successful fetch issues no network request,
\* whatever roster that fetch returned.
C15_CachedWithinExpiry == prog = "safeguard" => ~hist.tickRefetched

\* the poll interval of the running script
IntervalOf(p) ==
    CASE p = "telegram_alert" -> TG_CHECK_INTERVAL
      [] p = "node_auto_unjailed" -> NODE_CHECK_INTERVAL
      [] p = "twillio_alert" -> TW_CHECK_INTERVAL
      [] OTHER -> CHECK_INTERVAL

\* this step is a tick of the script's monitor loop
TickStep == IF prog = "safeguard" THEN sg_loop_wake' # sg_loop_wake ELSE now' # now

\* this tick leaves the monitor objects as they were, starts no alert and
\* runs no unjail command
TickChangesNothing ==
    /\ tgVars' = tgVars
    /\ nodeVars' = nodeVars
    /\ twVars' = twVars
    /\ <<sg_in_unjail_wait, sg_unjail_start_time, sg_tasks,
         sg_last_fetched_data, sg_last_fetch_time>>'
         = <<sg_in_unjail_wait, sg_unjail_start_time, sg_tasks,
             sg_last_fetched_data, sg_last_fetch_time>>
    /\ hist'.periodStart = hist.periodStart
    /\ hist'.periodAlerts = hist.periodAlerts
    /\ hist'.periodUnjails = hist.periodUnjails
    /\ ~hist'.tickUnjailed

\* the loop goes on, and its next tick comes one poll interval after this
\* tick's fetch
NextTickAfterInterval ==
    /\ loop_running'
    /\ IF prog = "safeguard"
       THEN sg_loop_wake' = now + CHECK_INTERVAL
       ELSE \E d \in NetDelays : now' = now + d + IntervalOf(prog)

\* C16: in the safeguard, telegram_alert.py and twillio_alert.py a tick whose
\* status fetch fails changes no state, starts no jail alert and no unjail,
\* and the loop proceeds to the next tick after the poll interval.
C16_FailedFetchNoTransition ==
    [][(prog \in {"safeguard", "telegram_alert", "twillio_alert"}
          /\ TickStep /\ hist'.tickObs = "fail") =>
       (TickChangesNothing /\ hist'.tickTargeted = 0 /\ NextTickAfterInterval)]_vars

\* a fetch failed while the remembered status was jailed
C16_Witness ==
    /\ prog = "twillio_alert"
    /\ hist.tickObs = "fail"
    /\ tw_last_jailed_status
    /\ hist.periodAlerts = 1

\* C17: in alert_hyperliqyud_validator_jail_status.py a failed status fetch,
\* be it a non-200 response or a transport exception, never ends
\* process_server: the thread is still running afterwards and fetches again
\* 60 seconds after the failed fetch.
C17_FailedFetchNeverFatal ==
    \A s \in JsServers :
        js_threads[s].lastOutcome \in {"non200", "transport"} =>
            /\ js_threads[s].alive
            /\ js_threads[s].wake = js_threads[s].lastFetch + JS_RETRY_SLEEP

\* C18: in the polling monitors (telegram_alert.py, twillio_alert.py and
\* node_auto_unjailed_alert_script.py) a tick whose roster was fetched but
\* does not hold the tracked validator makes no transition: the jail time,
\* the attempt counter and the last-jailed flag are unchanged, no alert round
\* and no unjail is started, and the loop goes on.
C18_AbsentValidatorNoTransition ==
    [][(prog \in {"telegram_alert", "twillio_alert", "node_auto_unjailed"}
          /\ TickStep /\ hist'.tickObs = "absent") =>
       (TickChangesNothing /\ loop_running')]_vars

\* the validator was missing from a roster in the middle of a retry cycle
C18_Witness ==
    /\ prog = "telegram_alert"
    /\ hist.tickObs = "absent"
    /\ tg_last_jailed_time # NoTime
    /\ tg_retry_count > 0

\* C19: in telegram_alert.py the exhausted state (retry_count at MAX_RETRIES)
\* lasts only until the validator recovers.  The not-jailed observation that
\* follows an exhausted period sets the counter to 0 and clears the jail
\* time; a jailed period after it is a fresh cycle: its jail time is its own
\* first jailed observation, its attempts are counted from zero up to
\* MAX_RETRIES, and its first attempt comes no sooner than UNJAIL_WAIT_TIME
\* after that observation.
C19_ExhaustionEndsOnRecovery ==
    (prog = "telegram_alert" /\ hist.prevUnjails = TG_MAX_RETRIES) =>
        /\ hist.tickObs = "N" =>
              (tg_retry_count = 0 /\ tg_last_jailed_time = NoTime)
        /\ (hist.periodStart # NoTime /\ loop_running) =>
              /\ tg_last_jailed_time = hist.periodStart
              /\ tg_retry_count = hist.periodUnjails
              /\ tg_retry_count <= TG_MAX_RETRIES
        /\ (hist.periodStart # NoTime /\ hist.periodUnjails > 0) =>
              hist.firstUnjailDelay >= TG_UNJAIL_WAIT_TIME

\* after an exhausted period and a recovery, the first attempt of a new
\* jailed period has been made and has failed
C19_Witness ==
    /\ prog = "telegram_alert"
    /\ hist.prevUnjails = TG_MAX_RETRIES
    /\ hist.periodStart # NoTime
    /\ hist.periodUnjails = 1
    /\ tg_retry_count = 1
    /\ loop_running

\* C20: in the safeguard every schedule_unjail task ends its lifecycle when
\* it returns, whether the unjail succeeded, failed or raised: once no task
\* is left, in_unjail_wait is false, so that the next jailed observation
\* creates a new task.
C20_FinishedTaskClearsFlag ==
    (prog = "safeguard" /\ sg_tasks = <<>>) => ~sg_in_unjail_wait

\* C21: in telegram_alert.py, after an unjail attempt has succeeded the
\* monitor is Healthy again (attempt counter 0, no jail time) and the poll
\* loop is still running, so that another tick follows and a later jailing
\* is detected.
C21_LoopRunsAfterSuccess ==
    (prog = "telegram_alert" /\ hist.tickUnjailed /\ tg_last_jailed_time = NoTime) =>
        (tg_retry_count = 0 /\ loop_running)

\* the deliveries a send_alert owes with its arguments
TelegramOwed == TelegramWanted(am_args.alert_type, am_bot)
CallsOwed ==
    IF CallsWanted(am_args.alert_type, am_args.specific, am_twilio) THEN am_phones ELSE 0

\* C22: in the safeguard's AlertManager a delivery failure on one channel or
\* destination does not prevent the attempts on the others and never raises
\* into the caller: when send_alert has returned, the Telegram send was
\* attempted if it was due and every phone number was called if calls were
\* due, whatever the outcome of each attempt, and no exception has left
\* send_alert.
C22_BestEffortFanOut ==
    (prog = "alert_manager" /\ am_pc = "returned") =>
        /\ ~am_raised
        /\ TelegramOwed <=> (\E k \in 1..Len(am_log) : am_log[k].dest # "call")
        /\ \A p \in 1..CallsOwed :
              \E k \in 1..Len(am_log) : am_log[k].dest = "call" /\ am_log[k].phone = p

\* the Telegram send and the first call failed, and the second number was
\* called all the same
C22_Witness ==
    /\ prog = "alert_manager"
    /\ am_pc = "returned"
    /\ Len(am_log) = 3
    /\ am_log[1].outcome = "raise"
    /\ am_log[2].outcome = "raise"
    /\ am_log[3].dest = "call"

\* C24: in the safeguard the aggregate validator summary goes to the
\* broadcast audience only: the send_alert of check_all_validators delivers
\* to nothing but the all-validators chat, and no send_alert with
\* specific=False places a phone call, whatever its alert_type.
C24_SummaryBroadcastOnly ==
    prog = "alert_manager" =>
        \A k \in 1..Len(am_log) :
            /\ am_args.caller = "summary" => am_log[k].dest = "chat_all"
            /\ ~am_args.specific => am_log[k].dest # "call"

\* the summary was sent by an AlertManager that has Twilio and a phone number
C24_Witness ==
    /\ prog = "alert_manager"
    /\ am_args.caller = "summary"
    /\ am_pc = "returned"
    /\ am_twilio
    /\ am_phones > 0
    /\ Len(am_log) = 1
    /\ am_log[1].dest = "chat_all"

\* the last tick saw the tracked validator jailed, and the snapshot before
\* showed it not jailed
FlippedToJailed ==
    hist.tickObs = "J" /\ ~hist.tickRepeat /\ hist.healthySeen > 0

\* C23: in the safeguard, when the tracked validator flips from not jailed
\* to jailed and a remediation task is created for it, the jailed event
\* reaches both audiences: the tick that detected the flip has sent to the
\* all-validators chat, and the task, once it has started its wait, has sent
\* the jail alert to the specific chat.
C23_JailedEventToBothAudiences ==
    prog = "safeguard" =>
        \A i \in 1..Len(sg_tasks) :
            /\ (sg_tasks[i].pc = "created" /\ FlippedToJailed) => hist.tickBroadcast > 0
            /\ (sg_tasks[i].pc = "sleep" /\ ~sg_tasks[i].stale) => hist.periodAlerts > 0

\* what the script of this run requires at its start
RequiredAtStart == IF prog = "safeguard_main" THEN SgRequired ELSE TgRequired

\* C25: when a required credential is missing at startup, the monitor never
\* enters its monitoring loop and the process ends with a non-zero exit
\* status.
C25_MissingCredentialExitsNonZero ==
    (/\ prog \in {"safeguard_main", "telegram_main"}
     /\ ~(RequiredAtStart \subseteq st_present)
     /\ st_pc # "start") =>
        (st_pc = "exited" /\ ~loop_running /\ st_exit # 0)

\* C26: in the safeguard a remediation task that is waiting out its delay
\* never holds up monitor_loop: at every moment of the wait the next tick is
\* due within one poll interval (plus the time of the last tick's sends) and
\* is not overdue.
C26_PendingTaskDoesNotBlockLoop ==
    (prog = "safeguard" /\ loop_running) =>
        \A i \in 1..Len(sg_tasks) :
            (sg_tasks[i].pc = "sleep" /\ now < sg_tasks[i].wake) =>
                /\ now <= sg_loop_wake
                /\ \E d \in NetDelays : sg_loop_wake <= now + d + CHECK_INTERVAL

\* two ticks after the one that created it, the task is still waiting and
\* the last tick has sent the summary to the all-validators chat
C26_Witness ==
    /\ prog = "safeguard"
    /\ Len(sg_tasks) = 1
    /\ sg_tasks[1].pc = "sleep"
    /\ now < sg_tasks[1].wake
    /\ sg_loop_wake >= sg_tasks[1].wake - UNJAIL_WAIT_TIME + 2 * CHECK_INTERVAL
    /\ hist.tickBroadcast > 0

\* the unjail wait the process was started with
ConfiguredUnjailWait ==
    IF sg_unjail_wait_arg = NoTime THEN UNJAIL_WAIT_TIME ELSE sg_unjail_wait_arg

\* C27: in the safeguard the delay between the detection of the jailing and
\* the unjail attempt equals the unjail wait given with --unjail-wait
\* (UNJAIL_WAIT_TIME without the option), for every value of the option.
\* Stated for the first jailed period of a run whose validator has not
\* recovered; the delay may exceed the wait by the time the jail alert took.
C27_UnjailWaitOptionHonoured ==
    (prog = "safeguard" /\ hist.healthySeen = 0 /\ hist.firstUnjailDelay # NoTime) =>
        \E d \in NetDelays : hist.firstUnjailDelay = ConfiguredUnjailWait + d

\* the last refresh succeeded and the updater sleeps
RefreshedOk == prog = "hl_exporter" /\ um_pc = "fetch" /\ um_hist.last = "ok"

\* every entry of validator_mapping is derived from a member of the roster
\* of the last refresh
NoStaleEntry ==
    \A k \in DOMAIN validator_mapping :
        \E i \in 1..Len(validator_summaries) :
            /\ Shorten(validator_summaries[i].validator) = k
            /\ validator_mapping[k] = EntryOf(validator_summaries[i])

\* C28 as stated: after a successful refresh every roster member's short id
\* maps to that member's full address and name, and no entry of a validator
\* missing from the roster remains.
C28_MappingHoldsEveryMember ==
    RefreshedOk =>
        /\ \A i \in 1..Len(validator_summaries) :
              LET k == Shorten(validator_summaries[i].validator)
              IN  k \in DOMAIN validator_mapping
                  /\ validator_mapping[k] = EntryOf(validator_summaries[i])
        /\ NoStaleEntry

\* roster member i is the last of the roster with its short id
LastWithShortId(i) ==
    \A j \in (i + 1)..Len(validator_summaries) :
        Shorten(validator_summaries[j].validator) # Shorten(validator_summaries[i].validator)

\* C28, amended: after a successful refresh validator_mapping holds, for
\* every short id of the roster, the full address and name of the last
\* roster member with that short id, and nothing else.
C28_MappingHoldsLastOfEachShortId ==
    RefreshedOk =>
        /\ \A i \in 1..Len(validator_summaries) :
              LET k == Shorten(validator_summaries[i].validator)
              IN  k \in DOMAIN validator_mapping
                  /\ (LastWithShortId(i) =>
                        validator_mapping[k] = EntryOf(validator_summaries[i]))
        /\ NoStaleEntry

\* a second refresh has fetched a roster of two validators whose addresses
\* share the short id, and the mapping holds the second of them only
C28_Witness ==
    /\ RefreshedOk
    /\ um_hist.refreshes = 2
    /\ Len(validator_summaries) = 2
    /\ validator_summaries[1].validator = AddrA
    /\ validator_summaries[2].validator = AddrB
    /\ DOMAIN validator_mapping = {Shorten(AddrA)}
    /\ validator_mapping[Shorten(AddrA)].full_address = AddrB

\* C29: once HEARTBEAT_INTERVAL has passed since the last heartbeat, the tick
\* that has just ended posted a heartbeat, whatever its fetch returned
C29_HeartbeatOnNextTick ==
    (prog = "balance_track" /\ bt_hist.ticks > 0 /\ bt_hist.due)
        => bt_hist.posted = 1

\* the number of seconds a Retry-After header asks for
RetryAfterValue(header) ==
    IF ~header.present THEN DEFAULT_RETRY_AFTER
    ELSE IF ParseInt(header.text).ok THEN ParseInt(header.text).val
    ELSE NoTime

LastWas429 == api_hist.lastKind \in {"rate_limited", "rate_limited_bad"}

\* C30: after an attempt answered by HTTP 429 the delay slept is the
\* Retry-After value (DEFAULT_RETRY_AFTER without the header) and
\* backoff_time is what it was before the attempt
C30_RetryAfterOverridesBackoff ==
    (prog = "hl_api" /\ LastWas429) =>
        /\ api_hist.lastDelay = RetryAfterValue(api_hist.lastHeader)
        /\ api_backoff_time = api_hist.backoffBefore

\* a Retry-After the 429 branch can sleep: absent, or a non-negative integer
UsableRetryAfter(header) == RetryAfterValue(header) >= 0

\* C30, amended: after an HTTP 429 whose Retry-After is absent or a
\* non-negative integer the delay slept is that value (DEFAULT_RETRY_AFTER
\* when absent) and backoff_time is unchanged; after a 429 with any other
\* Retry-After the delay is the exponential backoff and backoff_time doubles
C30_UsableRetryAfterOverridesBackoff ==
    (prog = "hl_api" /\ LastWas429) =>
        IF UsableRetryAfter(api_hist.lastHeader)
        THEN /\ api_hist.lastDelay = RetryAfterValue(api_hist.lastHeader)
             /\ api_backoff_time = api_hist.backoffBefore
        ELSE /\ api_hist.lastDelay = BackoffWait(api_hist.backoffBefore)
             /\ api_backoff_time = 2 * api_hist.backoffBefore

\* a 429 asking for 15 seconds arrived while the backoff stood at 4 seconds
\* or more: 15 seconds were slept and the backoff was kept
C30_Witness ==
    /\ prog = "hl_api"
    /\ LastWas429
    /\ api_hist.lastHeader = [present |-> TRUE, text |-> <<"1", "5">>]
    /\ api_hist.lastDelay = 15
    /\ api_hist.backoffBefore >= 4
    /\ api_backoff_time = api_hist.backoffBefore

\* retry_count as unjail_validator finds it: the jailed branch has reset it
\* when the tick is the first jailed detection
TgCountAtAttempt == IF tg_last_jailed_time = NoTime THEN 0 ELSE tg_retry_count

\* C31: a tick of telegram_alert.py that ran unjail_validator reports
\* success (the loop is left, retry_count is 0, no jail time is recorded)
\* exactly when the re-check after the settle wait returned the validator
\* not jailed; with no re-check, or one that failed, found the validator
\* absent or still jailed, the attempt is counted and the jail time kept
C31_SuccessOnlyOnHealthyRecheck ==
    [][(prog = "telegram_alert" /\ hist'.tickUnjailed) =>
          IF hist'.tickRecheck = "N"
          THEN /\ ~loop_running'
               /\ tg_retry_count' = 0
               /\ tg_last_jailed_time' = NoTime
          ELSE /\ loop_running'
               /\ tg_retry_count' = TgCountAtAttempt + 1
               /\ tg_last_jailed_time' # NoTime]_vars

\* the second attempt of a jailed period was accepted by the node, and its
\* re-check did not find the validator in the roster: it counts as failed
C31_Witness ==
    /\ prog = "telegram_alert"
    /\ hist.tickUnjailed
    /\ hist.tickRecheck = "absent"
    /\ tg_retry_count = 2
    /\ loop_running

\* the time at which the last wait_if_needed returned
LastAdmission == admitted[Len(admitted)]

\* C32: once wait_if_needed has returned, the window holds at most max_calls
\* timestamps, none of them older than 60 seconds at the admission time
C32_WindowBounded ==
    (prog = "rate_limiter" /\ admitted # <<>>) =>
        /\ Len(calls) <= max_calls
        /\ \A i \in 1..Len(calls) : calls[i] >= LastAdmission - WINDOW

\* C33: between the steps of monitor_loop the attempt counter of the
\* telegram_alert.py monitor lies in 0..MAX_RETRIES and is 0 whenever no
\* jail time is recorded
C33_RetryCountInRange ==
    prog = "telegram_alert" =>
        /\ 0 <= tg_retry_count
        /\ tg_retry_count <= TG_MAX_RETRIES
        /\ (tg_last_jailed_time = NoTime => tg_retry_count = 0)

\* the budget of a jailed period is used up: the counter stands at
\* MAX_RETRIES and one more jailed tick has gone by without an attempt
C33_Witness ==
    /\ prog = "telegram_alert"
    /\ tg_retry_count = TG_MAX_RETRIES
    /\ tg_last_jailed_time # NoTime
    /\ hist.tickObs = "J"
    /\ ~hist.tickUnjailed
    /\ now - tg_last_unjail_attempt >= TG_RETRY_WAIT_TIME

\* C34: a call of the safeguard's fetch_validator_data that returns a
\* snapshot returns the last one the network delivered, received less than
\* CACHE_EXPIRY seconds before the call; a call whose request failed returns
\* None and leaves the cached snapshot and its fetch time as they were
C34_NoStaleSnapshot ==
    (prog = "safeguard_cache" /\ fc_hist.calls > 0) =>
        /\ fc_hist.returned # "none" =>
              /\ fc_hist.returned = fc_hist.gotData
              /\ fc_hist.at - fc_hist.gotAt < CACHE_EXPIRY
        /\ (fc_hist.asked /\ fc_hist.answer = "fail") =>
              /\ fc_hist.returned = "none"
              /\ sg_last_fetched_data = fc_hist.dataBefore
              /\ sg_last_fetch_time = fc_hist.timeBefore

\* the cache holds a snapshot that expired, the request of the call failed
\* and the call returned None
C34_Witness ==
    /\ prog = "safeguard_cache"
    /\ fc_hist.asked
    /\ fc_hist.answer = "fail"
    /\ fc_hist.dataBefore = "J"
    /\ fc_hist.at - fc_hist.timeBefore >= CACHE_EXPIRY
    /\ fc_hist.returned = "none"

\* this step ends a refresh of update_validator_mapping in the except clause
RefreshFails == um_hist'.refreshes # um_hist.refreshes /\ um_hist'.last = "fail"

\* C35: no step of a refresh other than the assignment that ends a
\* successful one changes validator_mapping, and the step that ends a
\* failed refresh leaves the updater at the start of its next refresh,
\* UM_PERIOD seconds later
C35_FailedRefreshKeepsMapping ==
    [][prog = "hl_exporter" =>
          /\ (um_hist'.last = "ok" /\ um_hist'.refreshes # um_hist.refreshes)
             \/ validator_mapping' = validator_mapping
          /\ RefreshFails =>
                /\ validator_mapping' = validator_mapping
                /\ um_pc' = "fetch"
                /\ now' = now + UM_PERIOD]_vars

\* the second refresh failed on a malformed record that followed a
\* well-formed one of a validator the mapping does not hold: the mapping of
\* the first refresh is still there
C35_Witness ==
    /\ prog = "hl_exporter"
    /\ um_hist.last = "fail"
    /\ um_hist.refreshes = 2
    /\ um_pc = "fetch"
    /\ Len(validator_summaries) = 2
    /\ "validator" \in DOMAIN validator_summaries[1]
    /\ "validator" \notin DOMAIN validator_summaries[2]
    /\ DOMAIN validator_mapping # {}
    /\ Shorten(validator_summaries[1].validator) \notin DOMAIN validator_mapping

\* the mapping a complete pass over the roster builds
RECURSIVE FullMapping(_)
FullMapping(roster) ==
    IF roster = <<>> THEN <<>>
    ELSE LET member == roster[Len(roster)]
         IN  DictPut(FullMapping(SubSeq(roster, 1, Len(roster) - 1)),
                     Shorten(member.validator), EntryOf(member))

\* C36: whatever the updater is doing, a lookup of parse_consensus_log_line
\* consults the complete mapping of the roster installed last (the previous
\* one while a refresh is being built, the new one once it is assigned) and
\* derives its labels from it
C36_LookupSeesCompleteMapping ==
    (prog = "hl_exporter" /\ rd_hist.lookups > 0) =>
        /\ rd_hist.seen = FullMapping(rd_hist.roster)
        /\ IF rd_hist.key \in DOMAIN FullMapping(rd_hist.roster)
           THEN /\ rd_hist.full_address = FullMapping(rd_hist.roster)[rd_hist.key].full_address
                /\ rd_hist.name = FullMapping(rd_hist.roster)[rd_hist.key].name
           ELSE /\ rd_hist.full_address = rd_hist.key
                /\ rd_hist.name = "Unknown"

\* a lookup ran while the second refresh had put one of two members into
\* its dict, for a validator of the first roster that the new one drops:
\* it was answered from the first roster's mapping
C36_Witness ==
    /\ prog = "hl_exporter"
    /\ rd_hist.lookups > 0
    /\ rd_hist.building
    /\ um_pc = "build"
    /\ um_i = 2
    /\ Len(validator_summaries) = 2
    /\ um_hist.refreshes = 1
    /\ rd_hist.roster = um_hist.installed
    /\ rd_hist.key \in DOMAIN validator_mapping
    /\ rd_hist.key \notin DOMAIN new_mapping
    /\ new_mapping # <<>>
    /\ rd_hist.full_address = validator_mapping[rd_hist.key].full_address

\* C37: at least 60 seconds lie between two consecutive status fetches of
\* the same process_server thread, whatever the roster held
C37_NoTightLoop ==
    prog = "jail_status_alert" =>
        \A s \in JsServers :
            js_threads[s].lastGap # NoTime => js_threads[s].lastGap >= JS_RETRY_SLEEP

\* C38: when the monitor found its directory empty at its start and the
\* directory holds a file, the monitor eventually streams a file
C38_LateFileIsStreamed ==
    (prog = "hl_log_monitor" /\ lm_hist.startedEmpty /\ lm_dir # {})
        ~> (lm_pc = "stream")

\* the calls of func made so far, and those of them that raised
RtCalls == Len(rt_hist.outcomes)
RtAllRaised(n) == \A i \in 1..n : rt_hist.outcomes[i].kind = "raised"

\* C39: with retries >= 1 the wrapper calls func at most retries times;
\* while it runs every call so far has raised and was followed by one sleep
\* of delay; it returns the value of the first call that does not raise,
\* having slept after each failed call before it; after retries failed
\* calls it raises the exception of the last call, with no sleep after it
C39_RetrySemantics ==
    (prog = "retry_wrapper" /\ rt_retries >= 1 /\ rt_pc # "idle") =>
        /\ RtCalls <= rt_retries
        /\ now - rt_hist.began = rt_hist.sleeps * rt_delay
        /\ rt_pc = "loop" =>
              /\ RtCalls < rt_retries
              /\ RtAllRaised(RtCalls)
              /\ rt_hist.sleeps = RtCalls
        /\ rt_pc = "done" =>
              /\ RtCalls >= 1
              /\ RtAllRaised(RtCalls - 1)
              /\ rt_result = rt_hist.outcomes[RtCalls]
              /\ rt_hist.sleeps = RtCalls - 1
              /\ rt_result.kind = "raised" => RtCalls = rt_retries

\* retry_on_exception(retries=3, delay=23): three calls raised, the wrapper
\* raised the exception of the third after two sleeps
C39_Witness ==
    /\ prog = "retry_wrapper"
    /\ rt_retries = 3
    /\ rt_delay = RETRY_DELAY
    /\ rt_pc = "done"
    /\ rt_result = [kind |-> "raised", val |-> "E2"]
    /\ RtCalls = 3
    /\ rt_hist.outcomes[2].val = "E1"
    /\ rt_hist.sleeps = 2
    /\ now = 2 * RETRY_DELAY

====
